---- MODULE Spec2Model ----
(***************************************************************************)
(* VBridge: entity-graph path resolution, cutoff-time propagation, feature *)
(* merging and record retrieval, modelled from vbridge/utils and           *)
(* vbridge/featurization.                                                  *)
(***************************************************************************)
EXTENDS Integers, Sequences, FiniteSets, TLC

VARIABLES
    \* the arguments shared by find_path and transfer_cutoff_times:
    \* entityset.relationships, source_entity, target_entity
    entityset, source_entity, target_entity,
    \* find_path's locals (utils/entityset_helpers.py)
    fp_pc, nodes_pipe, parent_dict, node, paths,
    \* transfer_cutoff_times: the entity set's dataframes, the arguments
    \* cutoff_times and reduce, and the locals path and i
    tc_pc, dataframes, cutoff_times, reduce, path, hop_i,
    \* the frame object the caller passed in: its columns, and whether the
    \* local name cutoff_times still refers to it
    caller_columns, is_caller_frame,
    \* history: the mapping passed in, the mapping before the last hop and
    \* the direction of the last hop
    arg_cutoff_times, prev_cutoff_times, last_hop,
    \* Featurization.merge_features: its arguments and what it returns
    mg_pc, fm_list, fl_list, feature_matrix, feature_list,
    \* get_records and Featurization._generate_features: the source entity's
    \* dataframe, the target entity's dataframe, the cutoff_time argument,
    \* the cutoff_time frame and feature matrix of the last dfs run with the
    \* rows each instance's aggregation read, the last get_records call,
    \* and the kind of rows appended since the last dfs run
    entity, target_df, cutoff_arg, dfs_cutoff, dfs_fm, dfs_window, records_call,
    appended,
    \* Featurization.remove_uninterpretable_features: its arguments and what
    \* it returns
    pr_pc, pr_fm, pr_fl, pr_out,
    \* Featurization.generate_features: the task's declared source entities,
    \* self.entity_ids, the arguments save and load_exist, the source whose
    \* _generate_features call raises, the columns feature selection finds
    \* uninformative, the position in the chain of ifs, the list fp, the
    \* returned pair and the feature-matrix store (exist_fm / save_fm)
    gf_pc, task, entity_ids, gf_args, gf_failing, gf_low_information, gf_i, fp,
    gf_out, gf_store,
    \* get_feature_description and the two grouping functions: the features
    \* described, the item-label dictionary, the outcome of each description,
    \* the flat descriptor list object handed to the grouping functions, the
    \* outcome of group_features_by_where_item, of group_features_by_entity
    \* after it, and of building the hierarchy a second time
    hd_pc, hd_features, hd_item_dict, hd_described, hd_flat, hd_where, hd_tree,
    hd_tree2,
    \* get_what_if_shap_values: the arguments fm, model_manager, direct_id and
    \* target, the targets still to loop over, the locals shap_task and
    \* shap_values, the frames handed to model_manager.explain and
    \* model_manager.predict_proba so far, and the value returned
    wi_pc, wi_fm, wi_manager, direct_id, wi_target, wi_targets, wi_shap_task,
    wi_shap_values, wi_calls, wi_out,
    \* history: the target argument as passed (the loop rebinds the name)
    wi_target_arg,
    \* the call of explain that raises, and history: the except clause ran
    wi_failing, wi_raised,
    \* a task's get_cutoff_times and the feature generation after it: the
    \* dataset, the ADMISSIONS and event rows, the cutoff times and the rows
    \* aggregated for every admission
    ct_pc, ct_task, ct_admissions, ct_events, ct_cutoff_time, ct_window,
    \* SelectorExtent.put in concurrent requests and a reading request: each
    \* request's position and argument, the shared settings, and what the
    \* reader saw
    se_pc, se_extents, settings, rd_pc, rd_seen,
    \* get_reference_values_by_entity: the entity's rows, the cohort and the
    \* references returned
    rv_pc, rv_df, rv_subject_ids, rv_references

graphVars == <<entityset, source_entity, target_entity>>

searchVars == <<fp_pc, nodes_pipe, parent_dict, node, paths>>

cutoffVars == <<tc_pc, dataframes, cutoff_times, reduce, path, hop_i,
                caller_columns, is_caller_frame,
                arg_cutoff_times, prev_cutoff_times, last_hop>>

mergeVars == <<mg_pc, fm_list, fl_list, feature_matrix, feature_list>>

recordVars == <<entity, target_df, cutoff_arg, dfs_cutoff, dfs_fm, dfs_window,
                records_call, appended>>

pruneVars == <<pr_pc, pr_fm, pr_fl, pr_out>>

generateVars == <<gf_pc, task, entity_ids, gf_args, gf_failing, gf_low_information,
                  gf_i, fp, gf_out, gf_store>>

\* The variables of path resolution, cutoff propagation, merging and record
\* retrieval, and those of the featurization pipeline and the explanation
\* helpers.
coreVars == <<graphVars, searchVars, cutoffVars, mergeVars, recordVars>>

hierarchyVars == <<hd_pc, hd_features, hd_item_dict, hd_described, hd_flat, hd_where,
                   hd_tree, hd_tree2>>

whatIfVars == <<wi_pc, wi_fm, wi_manager, direct_id, wi_target, wi_targets,
                wi_shap_task, wi_shap_values, wi_calls, wi_out, wi_target_arg,
                wi_failing, wi_raised>>

featureVars == <<pruneVars, generateVars, hierarchyVars, whatIfVars>>

taskVars == <<ct_pc, ct_task, ct_admissions, ct_events, ct_cutoff_time, ct_window>>

selectorVars == <<se_pc, se_extents, settings, rd_pc, rd_seen>>

referenceVars == <<rv_pc, rv_df, rv_subject_ids, rv_references>>

\* The variables of the task definitions and of the request handlers.
serviceVars == <<taskVars, selectorVars, referenceVars>>

vars == <<coreVars, featureVars, serviceVars>>

\* Python's None, and the value of a variable a specification does not use.
None == "None"

(***************************************************************************)
(* Generic helpers                                                         *)
(***************************************************************************)
Last(seq) == seq[Len(seq)]

Front(seq) == SubSeq(seq, 1, Len(seq) - 1)

Range(seq) == {seq[i] : i \in DOMAIN seq}

RECURSIVE PickIndices(_, _, _)
\* The subsequence of seq at the positions in S, in the order of seq.
PickIndices(seq, S, i) ==
    IF i > Len(seq) THEN <<>>
    ELSE (IF i \in S THEN <<seq[i]>> ELSE <<>>) \o PickIndices(seq, S, i + 1)

(***************************************************************************)
(* The entity graph: an EntitySet's dataframes and its list of             *)
(* relationships, each (parent, parent key, child, child key).             *)
(***************************************************************************)
Entities == {"PATIENTS", "ADMISSIONS", "ICUSTAYS", "CHARTEVENTS", "LABEVENTS"}

\* A name that is no dataframe of the EntitySet.
UnknownEntity == "UNKNOWN"

parse_relationship_path(p, pc, c, cc) ==
    [parent_entity_id |-> p, parent_variable_id |-> pc,
     child_entity_id |-> c, child_variable_id |-> cc]

\* The relationships an EntitySet may hold, in the order they are added.
\* Subsets of them give trees, diamonds (cycles of the undirected graph),
\* disconnected graphs and two relationships between the same two entities.
AllRelationships ==
    << parse_relationship_path("PATIENTS", "SUBJECT_ID", "ADMISSIONS", "SUBJECT_ID"),
       parse_relationship_path("PATIENTS", "SUBJECT_ID", "ICUSTAYS", "SUBJECT_ID"),
       parse_relationship_path("ADMISSIONS", "HADM_ID", "ICUSTAYS", "HADM_ID"),
       parse_relationship_path("ADMISSIONS", "HADM_ID", "LABEVENTS", "HADM_ID"),
       parse_relationship_path("ICUSTAYS", "ICUSTAY_ID", "CHARTEVENTS", "ICUSTAY_ID"),
       parse_relationship_path("ADMISSIONS", "HADM_ID", "CHARTEVENTS", "HADM_ID"),
       parse_relationship_path("PATIENTS", "SUBJECT_ID", "LABEVENTS", "SUBJECT_ID"),
       parse_relationship_path("PATIENTS", "SUBJECT_ID", "ADMISSIONS", "GUARDIAN_ID"),
       parse_relationship_path("PATIENTS", "SUBJECT_ID", "CHARTEVENTS", "SUBJECT_ID") >>

\* How many of AllRelationships the generated entity graphs draw from.
MaxRelationships == 8

RelationshipLists ==
    {PickIndices(AllRelationships, S, 1) : S \in SUBSET (1..MaxRelationships)}

RECURSIVE get_backward_dataframes(_, _)
\* The names of the direct children of dataframe name, in relationship order.
get_backward_dataframes(relationships, name) ==
    IF relationships = <<>> THEN <<>>
    ELSE LET r == Head(relationships)
             rest == get_backward_dataframes(Tail(relationships), name)
         IN  IF r.parent_entity_id = name THEN <<r.child_entity_id>> \o rest ELSE rest

RECURSIVE get_forward_dataframes(_, _)
\* The names of the direct parents of dataframe name, in relationship order.
get_forward_dataframes(relationships, name) ==
    IF relationships = <<>> THEN <<>>
    ELSE LET r == Head(relationships)
             rest == get_forward_dataframes(Tail(relationships), name)
         IN  IF r.child_entity_id = name THEN <<r.parent_entity_id>> \o rest ELSE rest

(***************************************************************************)
(* find_path                                                               *)
(***************************************************************************)
\* child_nodes = backward_nodes + forward_nodes
child_nodes(relationships, parent_node) ==
    get_backward_dataframes(relationships, parent_node)
        \o get_forward_dataframes(relationships, parent_node)

\* parent_node = nodes_pipe.pop(): the LAST element of the list.
pipe_pop(pipe) == [parent_node |-> Last(pipe), nodes_pipe |-> Front(pipe)]

RECURSIVE discover_again(_, _, _)
\* The loop over child_nodes without its "not in parent_dict" test.
discover_again(st, children, parent_node) ==
    IF children = <<>> THEN st
    ELSE discover_again([nodes_pipe |-> Append(st.nodes_pipe, Head(children)),
                         parent_dict |-> (Head(children) :> parent_node) @@ st.parent_dict],
                        Tail(children), parent_node)

RECURSIVE discover(_, _, _)
\* for child in child_nodes: if child not in parent_dict: record its parent
\* and append it to the pipe.  st is [nodes_pipe, parent_dict].
discover(st, children, parent_node) ==
    IF children = <<>> THEN st
    ELSE LET child == Head(children)
             st2 == IF child \notin DOMAIN st.parent_dict
                    THEN [nodes_pipe |-> Append(st.nodes_pipe, child),
                          parent_dict |-> (child :> parent_node) @@ st.parent_dict]
                    ELSE st
         IN  discover(st2, Tail(children), parent_node)

\* One iteration of the search loop on st = [nodes_pipe, parent_dict, found]:
\* pop, break on the source, otherwise expand.
search_step(relationships, src, st) ==
    LET p == pipe_pop(st.nodes_pipe)
    IN  IF p.parent_node = src
        THEN [nodes_pipe |-> p.nodes_pipe, parent_dict |-> st.parent_dict, found |-> TRUE]
        ELSE LET d == discover([nodes_pipe |-> p.nodes_pipe, parent_dict |-> st.parent_dict],
                               child_nodes(relationships, p.parent_node), p.parent_node)
             IN  [nodes_pipe |-> d.nodes_pipe, parent_dict |-> d.parent_dict, found |-> FALSE]

extend_paths_buggy(ps, n) == Append(ps, <<n>>)

\* paths.append(paths[-1] + [node])
extend_paths(ps, n) == Append(ps, Last(ps) \o <<n>>)

\* No hop of transfer_cutoff_times has completed.
NoHop == [direction |-> None]

\* The variables of find_path while another operation is modelled.
SearchIdle ==
    /\ fp_pc = None
    /\ nodes_pipe = <<>>
    /\ parent_dict = <<>>
    /\ node = None
    /\ paths = <<>>

\* The variables of transfer_cutoff_times while another operation is modelled.
CutoffIdle ==
    /\ tc_pc = None
    /\ dataframes = <<>>
    /\ cutoff_times = <<>>
    /\ reduce = None
    /\ path = <<>>
    /\ hop_i = 0
    /\ caller_columns = {}
    /\ is_caller_frame = FALSE
    /\ arg_cutoff_times = <<>>
    /\ prev_cutoff_times = <<>>
    /\ last_hop = NoHop

\* The variables of merge_features while another operation is modelled.
MergeIdle ==
    /\ mg_pc = None
    /\ fm_list = <<>>
    /\ fl_list = <<>>
    /\ feature_matrix = <<>>
    /\ feature_list = <<>>

\* The variables of get_records and _generate_features while another
\* operation is modelled.
RecordsIdle ==
    /\ entity = <<>>
    /\ target_df = <<>>
    /\ cutoff_arg = <<>>
    /\ dfs_cutoff = <<>>
    /\ dfs_fm = <<>>
    /\ dfs_window = <<>>
    /\ records_call = [called |-> FALSE]
    /\ appended = None

\* The variables of remove_uninterpretable_features while another operation
\* is modelled.
PruneIdle ==
    /\ pr_pc = None
    /\ pr_fm = <<>>
    /\ pr_fl = <<>>
    /\ pr_out = <<>>

\* The variables of generate_features while another operation is modelled.
GenerateIdle ==
    /\ gf_pc = None
    /\ task = <<>>
    /\ entity_ids = <<>>
    /\ gf_args = <<>>
    /\ gf_failing = None
    /\ gf_low_information = {}
    /\ gf_i = 0
    /\ fp = <<>>
    /\ gf_out = <<>>
    /\ gf_store = <<>>

\* The variables of the feature descriptions while another operation is
\* modelled.
HierarchyIdle ==
    /\ hd_pc = None
    /\ hd_features = <<>>
    /\ hd_item_dict = <<>>
    /\ hd_described = <<>>
    /\ hd_flat = <<>>
    /\ hd_where = <<>>
    /\ hd_tree = <<>>
    /\ hd_tree2 = <<>>

\* The variables of get_what_if_shap_values while another operation is
\* modelled.
WhatIfIdle ==
    /\ wi_pc = None
    /\ wi_fm = <<>>
    /\ wi_manager = None
    /\ direct_id = 0
    /\ wi_target = None
    /\ wi_targets = <<>>
    /\ wi_shap_task = <<>>
    /\ wi_shap_values = <<>>
    /\ wi_calls = <<>>
    /\ wi_out = <<>>
    /\ wi_target_arg = None
    /\ wi_failing = [target |-> None, side |-> None]
    /\ wi_raised = FALSE

FeatureIdle ==
    /\ PruneIdle
    /\ GenerateIdle
    /\ HierarchyIdle
    /\ WhatIfIdle

TaskIdle ==
    /\ ct_pc = None
    /\ ct_task = None
    /\ ct_admissions = <<>>
    /\ ct_events = <<>>
    /\ ct_cutoff_time = <<>>
    /\ ct_window = <<>>

SelectorIdle ==
    /\ se_pc = <<>>
    /\ se_extents = <<>>
    /\ settings = <<>>
    /\ rd_pc = None
    /\ rd_seen = <<>>

ReferenceIdle ==
    /\ rv_pc = None
    /\ rv_df = <<>>
    /\ rv_subject_ids = <<>>
    /\ rv_references = <<>>

ServiceIdle ==
    /\ TaskIdle
    /\ SelectorIdle
    /\ ReferenceIdle

\* No entity graph is involved in the operation modelled.
GraphIdle ==
    /\ entityset = <<>>
    /\ source_entity = None
    /\ target_entity = None

\* The variables of path resolution, cutoff propagation, merging and record
\* retrieval while an operation of the pipeline is modelled.
CoreIdle ==
    /\ GraphIdle
    /\ SearchIdle
    /\ CutoffIdle
    /\ MergeIdle
    /\ RecordsIdle

FpInit ==
    /\ FeatureIdle
    /\ ServiceIdle
    /\ CutoffIdle
    /\ MergeIdle
    /\ RecordsIdle
    /\ entityset \in RelationshipLists
    /\ source_entity \in Entities \cup {UnknownEntity}
    /\ target_entity \in Entities \cup {UnknownEntity}
    /\ fp_pc = "search"
    /\ nodes_pipe = <<target_entity>>
    /\ parent_dict = (target_entity :> None)
    /\ node = None
    /\ paths = <<>>

\* while len(nodes_pipe): one iteration, ending in the break or the expansion.
FpSearch ==
    /\ fp_pc = "search"
    /\ Len(nodes_pipe) > 0
    /\ LET st == search_step(entityset, source_entity,
                             [nodes_pipe |-> nodes_pipe, parent_dict |-> parent_dict,
                              found |-> FALSE])
       IN  /\ nodes_pipe' = st.nodes_pipe
           /\ parent_dict' = st.parent_dict
           /\ IF st.found
              THEN /\ fp_pc' = "walk"
                   /\ node' = source_entity
                   /\ paths' = <<<<source_entity>>>>
              ELSE UNCHANGED <<fp_pc, node, paths>>
    /\ UNCHANGED <<serviceVars, featureVars, graphVars, cutoffVars, mergeVars, recordVars>>

\* The pipe ran empty without meeting the source: the loop ends normally.
FpSearchExhausted ==
    /\ fp_pc = "search"
    /\ Len(nodes_pipe) = 0
    /\ fp_pc' = "walk"
    /\ node' = source_entity
    /\ paths' = <<<<source_entity>>>>
    /\ UNCHANGED <<serviceVars, featureVars, graphVars, cutoffVars, mergeVars, recordVars, nodes_pipe, parent_dict>>

\* while node != target_entity: node = parent_dict[node]; paths.append(...)
FpWalk ==
    /\ fp_pc = "walk"
    /\ node # target_entity
    /\ IF node \in DOMAIN parent_dict
       THEN /\ node' = parent_dict[node]
            /\ paths' = extend_paths(paths, parent_dict[node])
            /\ fp_pc' = "walk"
       ELSE /\ fp_pc' = "KeyError"
            /\ UNCHANGED <<node, paths>>
    /\ UNCHANGED <<serviceVars, featureVars, graphVars, cutoffVars, mergeVars, recordVars, nodes_pipe, parent_dict>>

\* return paths
FpReturn ==
    /\ fp_pc = "walk"
    /\ node = target_entity
    /\ fp_pc' = "returned"
    /\ UNCHANGED <<serviceVars, featureVars, graphVars, cutoffVars, mergeVars, recordVars, nodes_pipe, parent_dict, node, paths>>

FpNext == FpSearch \/ FpSearchExhausted \/ FpWalk \/ FpReturn

SpecPath == FpInit /\ [][FpNext]_vars

\* A call, once started, runs: its next statement is eventually executed.
SpecPathFair == SpecPath /\ WF_vars(FpNext)

(***************************************************************************)
(* find_path as one call, for its callers                                  *)
(***************************************************************************)
RECURSIVE search_loop(_, _, _)
\* while len(nodes_pipe): ... until the break or the empty pipe.
search_loop(relationships, src, st) ==
    IF st.found \/ st.nodes_pipe = <<>> THEN st
    ELSE search_loop(relationships, src, search_step(relationships, src, st))

RECURSIVE walk_parents(_, _, _, _)
\* The second loop of find_path: [raised, paths], raised being "KeyError"
\* when parent_dict[node] raises and None when the call returns paths.
walk_parents(pd, n, tgt, ps) ==
    IF n = tgt THEN [raised |-> None, paths |-> ps]
    ELSE IF n \notin DOMAIN pd THEN [raised |-> "KeyError", paths |-> ps]
    ELSE walk_parents(pd, pd[n], tgt, extend_paths(ps, pd[n]))

find_path(relationships, src, tgt) ==
    LET st == search_loop(relationships, src,
                          [nodes_pipe |-> <<tgt>>, parent_dict |-> (tgt :> None),
                           found |-> FALSE])
    IN  walk_parents(st.parent_dict, src, tgt, <<<<src>>>>)

(***************************************************************************)
(* transfer_cutoff_times                                                   *)
(***************************************************************************)
\* Rows per dataframe and the largest cutoff time of the generated inputs.
NumInstances == 2

MaxTime == 2

InstanceIds == 1..NumInstances

Times == 1..MaxTime

\* The entities whose dataframes the cutoff-time model holds, and the
\* relationships among them (a prefix of AllRelationships).
CutoffEntities == {"PATIENTS", "ADMISSIONS", "ICUSTAYS"}

CutoffRelationshipLists ==
    {PickIndices(AllRelationships, S, 1) : S \in SUBSET (1..3)}

\* The dataframes: index -> row.  Admissions belong to any patient; ICU
\* stay i belongs to admission i and carries that admission's patient.
Dataframes ==
    {[PATIENTS |-> [i \in InstanceIds |-> [SUBJECT_ID |-> i]],
      ADMISSIONS |-> [i \in InstanceIds |-> [HADM_ID |-> i, SUBJECT_ID |-> adm[i]]],
      ICUSTAYS |-> [i \in InstanceIds |->
                      [ICUSTAY_ID |-> i, HADM_ID |-> i, SUBJECT_ID |-> adm[i]]]] :
        adm \in [InstanceIds -> InstanceIds]}

\* A cutoff-time frame: index (instance id) -> value of its "time" column.
CutoffFrames ==
    UNION {[ids -> Times] : ids \in SUBSET InstanceIds}

ReduceOptions == {"latest", "earliest", "earist", "mean"}

\* options = list(filter(lambda r: ..., entityset.relationships))
hop_options(relationships, source, target) ==
    SelectSeq(relationships,
              LAMBDA r : \/ (r.child_entity_id = source /\ r.parent_entity_id = target)
                         \/ (r.parent_entity_id = source /\ r.child_entity_id = target))

Max(S) == CHOOSE x \in S : \A y \in S : y <= x

Min(S) == CHOOSE x \in S : \A y \in S : x <= y

\* The frame looked up by the child's own index instead of its foreign key.
transfer_to_child_by_own_index(df, frame, child_column) ==
    IF \E c \in DOMAIN df : c \notin DOMAIN frame
    THEN [raised |-> "KeyError", frame |-> frame]
    ELSE [raised |-> None, frame |-> [c \in DOMAIN df |-> frame[c]]]

\* cutoff_times.loc[child_df_index] followed by the re-indexing with the
\* child's index: [raised, frame], raised being "KeyError" when a label of
\* child_df_index is not in the frame's index (pandas >= 1.0 refuses
\* missing labels).
transfer_to_child(df, frame, child_column) ==
    IF \E c \in DOMAIN df : df[c][child_column] \notin DOMAIN frame
    THEN [raised |-> "KeyError", frame |-> frame]
    ELSE [raised |-> None, frame |-> [c \in DOMAIN df |-> frame[df[c][child_column]]]]

\* groupby(r.child_column).time.idxmax(): per group the first index label
\* holding the largest time.
idxmax_as_idxmin(df, frame, child_column, key) ==
    LET group == {c \in DOMAIN frame : df[c][child_column] = key}
        best == Min({frame[c] : c \in group})
    IN  Min({c \in group : frame[c] = best})

idxmax(df, frame, child_column, key) ==
    LET group == {c \in DOMAIN frame : df[c][child_column] = key}
        best == Max({frame[c] : c \in group})
    IN  Min({c \in group : frame[c] = best})

idxmin(df, frame, child_column, key) ==
    LET group == {c \in DOMAIN frame : df[c][child_column] = key}
        best == Min({frame[c] : c \in group})
    IN  Min({c \in group : frame[c] = best})

\* The child -> parent branch: the reduce dispatch, .loc[idx] and
\* set_index(r.child_column): [raised, frame], raised being "ValueError" for
\* an unknown reduce option.
transfer_to_parent(df, frame, child_column, red) ==
    LET keys == {df[c][child_column] : c \in DOMAIN frame}
    IN  IF red = "latest"
        THEN [raised |-> None,
              frame |-> [k \in keys |-> frame[idxmax(df, frame, child_column, k)]]]
        ELSE IF red = "earist"
        THEN [raised |-> None,
              frame |-> [k \in keys |-> frame[idxmin(df, frame, child_column, k)]]]
        ELSE [raised |-> "ValueError", frame |-> frame]

TcInit ==
    /\ FeatureIdle
    /\ ServiceIdle
    /\ SearchIdle
    /\ MergeIdle
    /\ RecordsIdle
    /\ entityset \in CutoffRelationshipLists
    /\ source_entity \in CutoffEntities
    /\ target_entity \in CutoffEntities
    /\ dataframes \in Dataframes
    /\ cutoff_times \in CutoffFrames
    /\ reduce \in ReduceOptions
    /\ tc_pc = "start"
    /\ path = <<>>
    /\ hop_i = 0
    /\ caller_columns = {"time"}
    /\ is_caller_frame = TRUE
    /\ arg_cutoff_times = cutoff_times
    /\ prev_cutoff_times = cutoff_times
    /\ last_hop = NoHop

\* path = find_path(entityset, source_entity, target_entity)[-1]
TcFindPath ==
    /\ tc_pc = "start"
    /\ LET found == find_path(entityset, source_entity, target_entity)
       IN  IF found.raised # None
           THEN /\ tc_pc' = "KeyError: find_path"
                /\ UNCHANGED path
           ELSE /\ tc_pc' = "loop"
                /\ path' = Last(found.paths)
    /\ UNCHANGED <<serviceVars, featureVars, graphVars, searchVars, mergeVars, recordVars, dataframes, cutoff_times, reduce, hop_i,
                   caller_columns, is_caller_frame, arg_cutoff_times,
                   prev_cutoff_times, last_hop>>

\* One iteration of "for i, source in enumerate(path[:-1])".
TcHop ==
    /\ tc_pc = "loop"
    /\ hop_i + 1 < Len(path)
    /\ LET source == path[hop_i + 1]
           target == path[hop_i + 2]
           options == hop_options(entityset, source, target)
           r == options[1]
       IN  IF Len(options) = 0
           THEN /\ tc_pc' = "ValueError: No Relationship"
                /\ UNCHANGED <<cutoff_times, hop_i, caller_columns, is_caller_frame,
                               prev_cutoff_times, last_hop>>
           ELSE IF target = r.child_entity_id
           THEN LET out == transfer_to_child(dataframes[r.child_entity_id],
                                             cutoff_times, r.child_variable_id)
                IN  IF out.raised # None
                    THEN /\ tc_pc' = "KeyError: not in index"
                         /\ UNCHANGED <<cutoff_times, hop_i, caller_columns,
                                        is_caller_frame, prev_cutoff_times, last_hop>>
                    ELSE /\ cutoff_times' = out.frame
                         /\ prev_cutoff_times' = cutoff_times
                         /\ last_hop' = [direction |-> "to_child", relationship |-> r]
                         /\ is_caller_frame' = FALSE
                         /\ hop_i' = hop_i + 1
                         /\ UNCHANGED <<tc_pc, caller_columns>>
           ELSE IF source = r.child_entity_id
           THEN LET out == transfer_to_parent(dataframes[r.child_entity_id],
                                              cutoff_times, r.child_variable_id, reduce)
                IN  \* cutoff_times[r.child_column] = ... writes into the frame
                    \* cutoff_times names, before reduce is looked at
                    /\ caller_columns' = IF is_caller_frame
                                         THEN caller_columns \cup {r.child_variable_id}
                                         ELSE caller_columns
                    /\ IF out.raised # None
                       THEN /\ tc_pc' = "ValueError: Unknown reduce option"
                            /\ UNCHANGED <<cutoff_times, hop_i, is_caller_frame,
                                           prev_cutoff_times, last_hop>>
                       ELSE /\ cutoff_times' = out.frame
                            /\ prev_cutoff_times' = cutoff_times
                            /\ last_hop' = [direction |-> "to_parent", relationship |-> r]
                            /\ is_caller_frame' = FALSE
                            /\ hop_i' = hop_i + 1
                            /\ UNCHANGED tc_pc
           ELSE /\ hop_i' = hop_i + 1
                /\ UNCHANGED <<tc_pc, cutoff_times, caller_columns, is_caller_frame,
                               prev_cutoff_times, last_hop>>
    /\ UNCHANGED <<serviceVars, featureVars, graphVars, searchVars, mergeVars, recordVars, dataframes, reduce, path, arg_cutoff_times>>

\* return cutoff_times
TcReturn ==
    /\ tc_pc = "loop"
    /\ hop_i + 1 >= Len(path)
    /\ tc_pc' = "returned"
    /\ UNCHANGED <<serviceVars, featureVars, graphVars, searchVars, mergeVars, recordVars, dataframes, cutoff_times, reduce, path, hop_i,
                   caller_columns, is_caller_frame, arg_cutoff_times,
                   prev_cutoff_times, last_hop>>

TcNext == TcFindPath \/ TcHop \/ TcReturn

SpecCutoff == TcInit /\ [][TcNext]_vars

(***************************************************************************)
(* Featurization.merge_features                                            *)
(***************************************************************************)
\* The largest number of per-source feature tables handed to one merge.
MaxTables == 3

FeatureNames == {"X", "Y"}

\* A missing value.
NaN == <<"NaN">>

\* A feature descriptor: get_name() and the table (source entity) whose
\* dfs run produced the object.
FeatureBase(name, table) == [name |-> name, table |-> table]

\* The lists of distinct feature names a dfs run may return.
NameLists ==
    {l \in UNION {[1..n -> FeatureNames] : n \in 0..Cardinality(FeatureNames)} :
        \A i, j \in DOMAIN l : i # j => l[i] # l[j]}

\* The row orders of a feature matrix over the target entity's instances.
IndexOrders ==
    {l \in [InstanceIds -> InstanceIds] : \A i, j \in InstanceIds : i # j => l[i] # l[j]}

\* The value table k computed for a column and an instance.  merge_features
\* never looks into a value, so each cell stands for itself.
Cell(table, column, id) == <<table, column, id>>

\* The feature matrix of table k: [index, columns, values], with
\* values[column][instance id].
FeatureMatrix(table, names, index) ==
    [index |-> index, columns |-> names,
     values |-> [c \in Range(names) |-> [id \in InstanceIds |-> Cell(table, c, id)]]]

\* for f in fl: the body of the inner loop on acc = [feature_matrix,
\* feature_list], overwriting a column already present (no "continue").
merge_feature_overwriting(acc, fm, f) ==
    LET col == f.name
        aligned == [id \in Range(acc.feature_matrix.index) |->
                       IF id \in Range(fm.index) THEN fm.values[col][id] ELSE NaN]
    IN  IF col \in Range(acc.feature_matrix.columns)
        THEN [feature_matrix |->
                  [acc.feature_matrix EXCEPT !.values = (col :> aligned) @@ @],
              feature_list |-> acc.feature_list]
        ELSE [feature_matrix |->
                  [acc.feature_matrix EXCEPT !.columns = Append(@, col),
                                             !.values = (col :> aligned) @@ @],
              feature_list |-> Append(acc.feature_list, f)]

\* for f in fl: the body of the inner loop on acc = [feature_matrix,
\* feature_list].  The assignment feature_matrix[col] = fm[col] aligns the
\* column on feature_matrix's index.
merge_feature(acc, fm, f) ==
    LET col == f.name
        aligned == [id \in Range(acc.feature_matrix.index) |->
                       IF id \in Range(fm.index) THEN fm.values[col][id] ELSE NaN]
    IN  IF col \in Range(acc.feature_matrix.columns)
        THEN acc
        ELSE [feature_matrix |->
                  [acc.feature_matrix EXCEPT !.columns = Append(@, col),
                                             !.values = (col :> aligned) @@ @],
              feature_list |-> Append(acc.feature_list, f)]

RECURSIVE merge_table(_, _, _)
\* for f in fl: ...
merge_table(acc, fm, fl) ==
    IF fl = <<>> THEN acc
    ELSE merge_table(merge_feature(acc, fm, Head(fl)), fm, Tail(fl))

RECURSIVE merge_tables(_, _, _)
\* for fm, fl in zip(fm_list, fl_list): ...
merge_tables(acc, fms, fls) ==
    IF fms = <<>> \/ fls = <<>> THEN acc
    ELSE merge_tables(merge_table(acc, Head(fms), Head(fls)), Tail(fms), Tail(fls))

\* feature_matrix.loc[index]: the rows in the order of index.
loc_index(fm, index) == [fm EXCEPT !.index = index]

merge_features(fms, fls) ==
    LET index == fms[1].index
        merged == merge_tables([feature_matrix |-> fms[1], feature_list |-> fls[1]],
                               fms, fls)
    IN  [feature_matrix |-> loc_index(merged.feature_matrix, index),
         feature_list |-> merged.feature_list]

MgInit ==
    /\ FeatureIdle
    /\ ServiceIdle
    /\ GraphIdle
    /\ SearchIdle
    /\ CutoffIdle
    /\ RecordsIdle
    /\ \E n \in 1..MaxTables :
           \E names \in [1..n -> NameLists], orders \in [1..n -> IndexOrders] :
               /\ fl_list = [k \in 1..n |->
                                [i \in DOMAIN names[k] |-> FeatureBase(names[k][i], k)]]
               /\ fm_list = [k \in 1..n |-> FeatureMatrix(k, names[k], orders[k])]
    /\ mg_pc = "call"
    /\ feature_matrix = <<>>
    /\ feature_list = <<>>

\* fm, fl = Featurization.merge_features(fm_list, fl_list)
MgMergeFeatures ==
    /\ mg_pc = "call"
    /\ LET out == merge_features(fm_list, fl_list)
       IN  /\ feature_matrix' = out.feature_matrix
           /\ feature_list' = out.feature_list
    /\ mg_pc' = "merged"
    /\ UNCHANGED <<serviceVars, featureVars, graphVars, searchVars, cutoffVars, recordVars, fm_list, fl_list>>

MgNext == MgMergeFeatures

SpecMerge == MgInit /\ [][MgNext]_vars

(***************************************************************************)
(* get_records and Featurization._generate_features                        *)
(***************************************************************************)
\* The largest number of rows of the source entity.
MaxRows == 2

\* pandas' missing timestamp, and "no cutoff_time argument" (None) where a
\* timestamp is expected.
NaT == -1

NoCutoff == -2

\* time <= cutoff on timestamps: every comparison with NaT is False.
time_le(time, cutoff) == time # NaT /\ cutoff # NaT /\ time <= cutoff

\* The rows a source entity (LABEVENTS) may hold; a row's patient is its
\* admission's patient.
EntityRows ==
    [HADM_ID : InstanceIds, CHARTTIME : Times \cup {NaT}, VALUENUM : {1, 2}]

EntityColumns == {"SUBJECT_ID", "HADM_ID", "CHARTTIME", "VALUENUM"}

\* The patient of an admission: admission i is patient i's.
SubjectOf(hadm_id) == hadm_id

Column(row, column) ==
    IF column = "SUBJECT_ID" THEN SubjectOf(row.HADM_ID) ELSE row[column]

\* get_records without its cutoff filter.
get_records_unfiltered(df, subject_id, time_index, cutoff_time) ==
    IF "SUBJECT_ID" \in EntityColumns
    THEN SelectSeq(df, LAMBDA r : Column(r, "SUBJECT_ID") = subject_id)
    ELSE df

get_records(df, subject_id, time_index, cutoff_time) ==
    LET entity_df == IF "SUBJECT_ID" \in EntityColumns
                     THEN SelectSeq(df, LAMBDA r : Column(r, "SUBJECT_ID") = subject_id)
                     ELSE df
    IN  IF cutoff_time # NoCutoff /\ time_index # None
        THEN SelectSeq(entity_df, LAMBDA r : time_le(Column(r, time_index), cutoff_time))
        ELSE entity_df

\* if cutoff_time is None: the target dataframe's index and time index,
\* renamed to instance_id and time.
default_cutoff_time(df) == [i \in DOMAIN df |-> df[i].ADMITTIME]

\* The rows of the source entity dfs aggregates for one instance:
\* ft.dfs(..., cutoff_time=cutoff_time, include_cutoff_time=True) reads the
\* instance's rows whose time index is at or before its cutoff time.
dfs_rows(df, instance_id, cutoff) ==
    {k \in DOMAIN df : /\ df[k].HADM_ID = instance_id
                       /\ time_le(df[k].CHARTTIME, cutoff)}

RECURSIVE SumValues(_, _)
SumValues(df, rows) ==
    IF rows = {} THEN 0
    ELSE LET k == CHOOSE x \in rows : TRUE
         IN  df[k].VALUENUM + SumValues(df, rows \ {k})

RECURSIVE GCD(_, _)
GCD(a, b) == IF b = 0 THEN a ELSE GCD(b, a % b)

\* MEAN(LABEVENTS.VALUENUM) over the rows, as a reduced fraction; NaN over
\* no rows.
Mean(df, rows) ==
    IF rows = {} THEN NaN
    ELSE LET total == SumValues(df, rows)
             n == Cardinality(rows)
             g == GCD(total, n)
         IN  <<total \div g, n \div g>>

\* _generate_features: the cutoff_time frame handed to dfs.
effective_cutoff_time(df, arg) ==
    IF arg = <<>> THEN default_cutoff_time(df) ELSE arg

LkInit ==
    /\ FeatureIdle
    /\ ServiceIdle
    /\ GraphIdle
    /\ SearchIdle
    /\ CutoffIdle
    /\ MergeIdle
    /\ entity = <<>>
    /\ target_df \in [InstanceIds -> [ADMITTIME : Times]]
    \* cutoff_time=None is the empty frame here; the admission times vary
    \* where they are read
    /\ cutoff_arg \in {<<>>} \cup [InstanceIds -> Times]
    /\ cutoff_arg # <<>> => \A i \in InstanceIds : target_df[i].ADMITTIME = 1
    /\ dfs_cutoff = <<>>
    /\ dfs_fm = <<>>
    /\ dfs_window = <<>>
    /\ records_call = [called |-> FALSE]
    /\ appended = "none"

\* The dataset gains a row of the source entity.
LkAppendRow ==
    /\ Len(entity) < MaxRows
    /\ \E row \in EntityRows :
           LET cutoff == effective_cutoff_time(target_df, cutoff_arg)[row.HADM_ID]
               late == row.CHARTTIME # NaT /\ row.CHARTTIME > cutoff
           IN  /\ entity' = Append(entity, row)
               /\ appended' = IF late /\ appended \in {"none", "late"}
                              THEN "late" ELSE "other"
    /\ UNCHANGED <<serviceVars, featureVars, graphVars, searchVars, cutoffVars, mergeVars, target_df, cutoff_arg,
                   dfs_cutoff, dfs_fm, dfs_window, records_call>>

\* fm, fl = self._generate_features(target_entity='LABEVENTS',
\*                                  agg_primitives=["mean"], cutoff_time=...)
LkGenerateFeatures ==
    /\ LET cutoff_time == effective_cutoff_time(target_df, cutoff_arg)
       IN  /\ dfs_cutoff' = cutoff_time
           /\ dfs_window' = [i \in DOMAIN cutoff_time |->
                                dfs_rows(entity, i, cutoff_time[i])]
           /\ dfs_fm' = [i \in DOMAIN cutoff_time |->
                            Mean(entity, dfs_rows(entity, i, cutoff_time[i]))]
    /\ appended' = "none"
    /\ UNCHANGED <<serviceVars, featureVars, graphVars, searchVars, cutoffVars, mergeVars, entity, target_df,
                   cutoff_arg, records_call>>

\* get_records(es, subject_id, entity_id, time_index, cutoff_time)
LkGetRecords ==
    /\ \E subject_id \in InstanceIds, time_index \in {None, "CHARTTIME"},
          cutoff_time \in {NoCutoff} \cup Times :
           records_call' = [called |-> TRUE, subject_id |-> subject_id,
                            time_index |-> time_index, cutoff_time |-> cutoff_time,
                            entity_df |-> get_records(entity, subject_id, time_index,
                                                      cutoff_time)]
    /\ UNCHANGED <<serviceVars, featureVars, graphVars, searchVars, cutoffVars, mergeVars, entity, target_df,
                   cutoff_arg, dfs_cutoff, dfs_fm, dfs_window, appended>>

LkNext == LkAppendRow \/ LkGenerateFeatures \/ LkGetRecords

SpecRecords == LkInit /\ [][LkNext]_vars

(***************************************************************************)
(* Featurization.remove_uninterpretable_features                           *)
(***************************************************************************)
\* A feature name is its text: a sequence of characters in which the one
\* element Where stands for the separator ' WHERE '.
Chars == {"a", "b"}

Where == " WHERE "

\* The longest part before ' WHERE ' and the most columns of a matrix.
MaxNameLen == 2

MaxColumns == 3

\* ' WHERE ' in f
has_where(f) == \E k \in DOMAIN f : f[k] = Where

\* f.split(' WHERE ')[0]
split_where(f) ==
    LET first == CHOOSE k \in DOMAIN f :
                     f[k] = Where /\ \A j \in 1..(k - 1) : f[j] # Where
    IN  IF has_where(f) THEN SubSeq(f, 1, first - 1) ELSE f

\* prefix in column: Python's substring test on two texts.
contains(prefix, column) ==
    \E i \in 0..(Len(column) - Len(prefix)) :
        SubSeq(column, i + 1, i + Len(prefix)) = prefix

\* The names of features without a filter, of filtered features
\* (<unfiltered name> WHERE <item>), and the column lists of a matrix.
UnfilteredNames == UNION {[1..n -> Chars] : n \in 1..MaxNameLen}

FilteredNames == {u \o <<Where, "a">> : u \in UnfilteredNames}

ColumnLists ==
    {l \in UNION {[1..n -> UnfilteredNames \cup FilteredNames] : n \in 0..MaxColumns} :
        \A i, j \in DOMAIN l : i # j => l[i] # l[j]}

\* uninterpretable_cols
uninterpretable(columns) ==
    LET where_prefix == {split_where(f) : f \in {c \in Range(columns) : has_where(c)}}
    IN  SelectSeq(columns, LAMBDA column :
            (\E prefix \in where_prefix : contains(prefix, column)) /\ ~has_where(column))

\* fm.pop(column) for every column of cols.
pop_columns(fm, cols) ==
    LET kept == SelectSeq(fm.columns, LAMBDA c : c \notin Range(cols))
    IN  [index |-> fm.index, columns |-> kept,
         values |-> [c \in Range(kept) |-> fm.values[c]]]

remove_uninterpretable_features(fm, fl) ==
    LET popped == pop_columns(fm, uninterpretable(fm.columns))
    IN  [fm |-> popped,
         fl |-> SelectSeq(fl, LAMBDA f : f.name \in Range(popped.columns))]

\* The row order of a matrix dfs computed over the cutoff_time frame.
CutoffOrder == [i \in InstanceIds |-> i]

PrInit ==
    /\ CoreIdle
    /\ ServiceIdle
    /\ GenerateIdle
    /\ HierarchyIdle
    /\ WhatIfIdle
    /\ pr_pc = "call"
    /\ \E columns \in ColumnLists :
           /\ pr_fm = FeatureMatrix("fm", columns, CutoffOrder)
           /\ pr_fl = [i \in DOMAIN columns |-> FeatureBase(columns[i], "fm")]
    /\ pr_out = <<>>

\* fm, fl = Featurization.remove_uninterpretable_features(fm, fl)
PrRemoveUninterpretable ==
    /\ pr_pc = "call"
    /\ pr_out' = remove_uninterpretable_features(pr_fm, pr_fl)
    /\ pr_pc' = "returned"
    /\ UNCHANGED <<serviceVars, coreVars, whatIfVars, generateVars, hierarchyVars, pr_fm, pr_fl>>

PrNext == PrRemoveUninterpretable

SpecPrune == PrInit /\ [][PrNext]_vars

(***************************************************************************)
(* Featurization.generate_features                                         *)
(***************************************************************************)
\* The sources generate_features computes, in the order of its chain of ifs.
SourceEntities == <<"PATIENTS", "CHARTEVENTS", "SURGERY_VITAL_SIGNS", "LABEVENTS">>

\* The lists without repetition over a set.
Arrangements(S) ==
    {l \in UNION {[1..n -> S] : n \in 0..Cardinality(S)} :
        \A i, j \in DOMAIN l : i # j => l[i] # l[j]}

\* The tasks: forward_entities and backward_entities as declared.
Tasks ==
    [forward_entities : Arrangements({"PATIENTS", "ADMISSIONS"}),
     backward_entities : Arrangements({"CHARTEVENTS", "SURGERY_VITAL_SIGNS", "LABEVENTS"})]

\* The feature every source produces under one name, and the feature names
\* of one source's dfs run: the shared name, a name of its own and, with
\* where_primitives, an aggregation with its filtered variant.
SharedName == <<"a">>

source_names(e) ==
    <<SharedName, <<e>>>>
        \o (IF e = "PATIENTS" THEN <<>> ELSE <<<<"b">>, <<"b", Where, "a">>>>)

\* self._patients(...), self._chart_events(...), ...: the (fm, fl) pair of
\* one source, named for the source.
source_table(e) ==
    [source |-> e,
     fm |-> FeatureMatrix(e, source_names(e), CutoffOrder),
     fl |-> [i \in DOMAIN source_names(e) |-> FeatureBase(source_names(e)[i], e)]]

\* load_fm: the pair the store holds.
stored_table == source_table("STORE")

\* select_features: the selection drops the columns it finds uninformative
\* from the matrix and the descriptor list alike.
select_features(fm, fl, low_information) ==
    LET selected == pop_columns(fm, SelectSeq(fm.columns,
                                              LAMBDA c : c \in low_information))
    IN  [fm |-> selected,
         fl |-> SelectSeq(fl, LAMBDA f : f.name \in Range(selected.columns))]

\* fm.index = fm.index.astype('str')
index_astype_str(fm) ==
    [index |-> [i \in DOMAIN fm.index |-> ToString(fm.index[i])],
     columns |-> fm.columns,
     values |-> [c \in Range(fm.columns) |->
                    [label \in {ToString(id) : id \in Range(fm.index)} |->
                        fm.values[c][CHOOSE id \in Range(fm.index) :
                                         ToString(id) = label]]]]

\* Lines 98-101 on the list fp.
merge_and_select(tables, low_information) ==
    LET merged == merge_features([k \in DOMAIN tables |-> tables[k].fm],
                                 [k \in DOMAIN tables |-> tables[k].fl])
        pruned == remove_uninterpretable_features(merged.feature_matrix,
                                                  merged.feature_list)
    IN  select_features(pruned.fm, pruned.fl, low_information)

\* Lines 103-106: the returned pair and the store after them.
finish(pair, args, store) ==
    LET out == [fm |-> index_astype_str(pair.fm), fl |-> pair.fl]
    IN  [out |-> out,
         store |-> IF args.save
                   THEN [exist |-> TRUE, saved |-> Append(store.saved, out)]
                   ELSE store]

\* fp.append(self._<source>(...)) with the exception of the source's
\* computation caught and the source skipped.
append_source_swallowing(tables, e, failing) ==
    [raised |-> FALSE,
     fp |-> IF failing = e THEN tables ELSE Append(tables, source_table(e))]

\* fp.append(self._<source>(...)): an exception of find_path or ft.dfs
\* inside the call leaves generate_features.
append_source(tables, e, failing) ==
    IF failing = e
    THEN [raised |-> TRUE, fp |-> tables]
    ELSE [raised |-> FALSE, fp |-> Append(tables, source_table(e))]

GfInit ==
    /\ CoreIdle
    /\ ServiceIdle
    /\ PruneIdle
    /\ HierarchyIdle
    /\ WhatIfIdle
    /\ gf_pc = "call"
    /\ task \in Tasks
    /\ entity_ids = task.forward_entities \o task.backward_entities
    /\ gf_args \in [save : BOOLEAN, load_exist : BOOLEAN]
    /\ gf_failing \in {None} \cup Range(SourceEntities)
    /\ gf_low_information \in SUBSET {SharedName}
    /\ gf_i = 0
    /\ fp = <<>>
    /\ gf_out = <<>>
    /\ gf_store \in [exist : BOOLEAN, saved : {<<>>}]

\* if load_exist and exist_fm(...): fm, fl = load_fm(...), then lines 103-106
GfLoad ==
    /\ gf_pc = "call"
    /\ gf_args.load_exist /\ gf_store.exist
    /\ LET done == finish([fm |-> stored_table.fm, fl |-> stored_table.fl],
                          gf_args, gf_store)
       IN  /\ gf_out' = done.out
           /\ gf_store' = done.store
    /\ gf_pc' = "returned"
    /\ UNCHANGED <<serviceVars, coreVars, whatIfVars, pruneVars, hierarchyVars, task, entity_ids, gf_args, gf_failing,
                   gf_low_information, gf_i, fp>>

\* else: fp = []; cutoff_time = self.task.get_cutoff_times(self.es)
GfCutoffTimes ==
    /\ gf_pc = "call"
    /\ ~(gf_args.load_exist /\ gf_store.exist)
    /\ gf_pc' = "sources"
    /\ gf_i' = 1
    /\ fp' = <<>>
    /\ UNCHANGED <<serviceVars, coreVars, whatIfVars, pruneVars, hierarchyVars, task, entity_ids, gf_args, gf_failing,
                   gf_low_information, gf_out, gf_store>>

\* if '<source>' in self.entity_ids: fp.append(self._<source>(...))
GfSource ==
    /\ gf_pc = "sources"
    /\ LET e == SourceEntities[gf_i]
           step == IF e \in Range(entity_ids)
                   THEN append_source(fp, e, gf_failing)
                   ELSE [raised |-> FALSE, fp |-> fp]
       IN  IF step.raised
           THEN /\ gf_pc' = "raised"
                /\ UNCHANGED <<gf_i, fp>>
           ELSE /\ fp' = step.fp
                /\ gf_i' = gf_i + 1
                /\ gf_pc' = IF gf_i = Len(SourceEntities) THEN "merge" ELSE "sources"
    /\ UNCHANGED <<serviceVars, coreVars, whatIfVars, pruneVars, hierarchyVars, task, entity_ids, gf_args, gf_failing,
                   gf_low_information, gf_out, gf_store>>

\* Lines 98-106; merge_features reads fm_list[0] and raises IndexError on
\* an empty list.
GfMergeAndReturn ==
    /\ gf_pc = "merge"
    /\ IF fp = <<>>
       THEN /\ gf_pc' = "IndexError"
            /\ UNCHANGED <<gf_out, gf_store>>
       ELSE LET done == finish(merge_and_select(fp, gf_low_information),
                               gf_args, gf_store)
            IN  /\ gf_out' = done.out
                /\ gf_store' = done.store
                /\ gf_pc' = "returned"
    /\ UNCHANGED <<serviceVars, coreVars, whatIfVars, pruneVars, hierarchyVars, task, entity_ids, gf_args, gf_failing,
                   gf_low_information, gf_i, fp>>

GfNext == GfLoad \/ GfCutoffTimes \/ GfSource \/ GfMergeAndReturn

SpecGenerate == GfInit /\ [][GfNext]_vars

(***************************************************************************)
(* utils/feature_helpers.py: get_feature_description and the grouping of   *)
(* descriptors by filter item and by entity                                *)
(***************************************************************************)
\* The most features described in one list.
MaxFeatures == 3

\* A featuretools feature as the helpers read it: get_name(), primitive.name,
\* base_features and, on a leaf, dataframe_name and column_name.  An
\* aggregation with a filter has the attribute where, whose name is
\* '<column> = <item>' (a text whose element Equals stands for ' = ').
Equals == " = "

IdentityFeature(dataframe_name, column_name) ==
    [name |-> column_name, primitive |-> "identity", base_features |-> <<>>,
     dataframe_name |-> dataframe_name, column_name |-> column_name]

AggregationFeature(name, primitive, base_features) ==
    [name |-> name, primitive |-> primitive, base_features |-> base_features]

\* feature.where = <column> = <item>: the attribute is in feature.__dict__
\* only when a filter was given.
with_where(feature, column_name, item) ==
    ("where" :> [name |-> <<column_name, Equals, item>>]) @@ feature

\* The features a dfs run over ADMISSIONS, LABEVENTS and CHARTEVENTS may
\* return: a column of the target, aggregations with and without a filter
\* (two entities filtered on the same item id), a trend over a value and its
\* time column, an aggregation over two value columns, a feature over
\* leaves of two entities, and one over an ignored column only.
Features ==
    LET lab == AggregationFeature("MEAN(LABEVENTS.VALUENUM)", "mean",
                                  <<IdentityFeature("LABEVENTS", "VALUENUM")>>)
        chart == AggregationFeature("MEAN(CHARTEVENTS.VALUE)", "mean",
                                    <<IdentityFeature("CHARTEVENTS", "VALUE")>>)
    IN  { IdentityFeature("ADMISSIONS", "AGE"),
          lab,
          with_where(lab, "ITEMID", "5"),
          with_where(lab, "ITEMID", "7"),
          with_where(chart, "ITEMID", "5"),
          AggregationFeature("TREND(CHARTEVENTS.VALUE, CHARTTIME)", "trend",
                             <<IdentityFeature("CHARTEVENTS", "VALUE"),
                               IdentityFeature("CHARTEVENTS", "CHARTTIME")>>),
          AggregationFeature("SUM(LABEVENTS.VALUENUM, LABEVENTS.FLAG)", "sum",
                             <<IdentityFeature("LABEVENTS", "VALUENUM"),
                               IdentityFeature("LABEVENTS", "FLAG")>>),
          AggregationFeature("ADMISSIONS.AGE * MEAN(LABEVENTS.VALUENUM)", "multiply",
                             <<IdentityFeature("ADMISSIONS", "AGE"), lab>>),
          AggregationFeature("LAST(LABEVENTS.CHARTTIME)", "last",
                             <<IdentityFeature("LABEVENTS", "CHARTTIME")>>) }

FeatureLists == UNION {[1..n -> Features] : n \in 0..MaxFeatures}

\* item_dict: None, or a dictionary entity -> item id -> label; an entity
\* or an item may be missing from it.
NoItemDict == [supplied |-> FALSE]

Labels ==
    [LABEVENTS |-> [i \in {"5", "7"} |-> IF i = "5" THEN "Glucose" ELSE "Lactate"],
     CHARTEVENTS |-> [i \in {"5", "7"} |-> IF i = "5" THEN "Heart Rate" ELSE "SpO2"]]

\* The dictionary with the labels of the given entities and items.
ItemDict(entities, items) ==
    [supplied |-> TRUE,
     entries |-> [e \in entities |-> [i \in items |-> Labels[e][i]]]]

ItemDicts ==
    { NoItemDict,
      ItemDict({"LABEVENTS", "CHARTEVENTS"}, {"5", "7"}),
      ItemDict({"LABEVENTS", "CHARTEVENTS"}, {"5"}),
      ItemDict({"LABEVENTS"}, {"5", "7"}) }

\* Python's None where a dictionary is expected.
NoneValue == <<>>

\* d[key] = value on a dictionary.
set_item(d, key, value) == (key :> value) @@ d

RECURSIVE get_leaves(_)
get_leaves(feature) ==
    LET RECURSIVE leaves_of(_)
        leaves_of(base) ==
            IF base = <<>> THEN <<>>
            ELSE get_leaves(Head(base)) \o leaves_of(Tail(base))
    IN  IF Len(feature.base_features) > 0
        THEN leaves_of(feature.base_features)
        ELSE <<feature>>

\* get_relevant_entity_id with the first entity chosen in place of the raise.
get_relevant_entity_id_first(feature) ==
    [raised |-> None, value |-> get_leaves(feature)[1].dataframe_name]

get_relevant_entity_id(feature) ==
    LET leave_nodes == get_leaves(feature)
        entity_ids_set == {leave_nodes[k].dataframe_name : k \in DOMAIN leave_nodes}
    IN  IF Cardinality(entity_ids_set) > 1
        THEN [raised |-> "UserWarning", value |-> None]
        ELSE [raised |-> None, value |-> CHOOSE e \in entity_ids_set : TRUE]

get_relevant_column_id(feature, ignore_columns) ==
    LET leave_nodes == get_leaves(feature)
        column_ids == {leave_nodes[k].column_name : k \in DOMAIN leave_nodes}
                          \ ignore_columns
    IN  IF Cardinality(column_ids) > 1
        THEN [raised |-> "UserWarning", value |-> None]
        ELSE IF column_ids = {}
        THEN [raised |-> "IndexError", value |-> None]
        ELSE [raised |-> None, value |-> CHOOSE c \in column_ids : TRUE]

\* item_dict.get(entityId): the entity's labels, or None.
hd_item_dict_get(item_dict, entityId) ==
    IF item_dict.supplied /\ entityId \in DOMAIN item_dict.entries
    THEN [found |-> TRUE, value |-> item_dict.entries[entityId]]
    ELSE [found |-> FALSE, value |-> NoneValue]

\* filter_name.split(' = ')
split_equals(filter_name) ==
    LET k == CHOOSE i \in DOMAIN filter_name : filter_name[i] = Equals
    IN  <<SubSeq(filter_name, 1, k - 1), SubSeq(filter_name, k + 1, Len(filter_name))>>

\* The default of ignore_columns.
DefaultIgnoreColumns == {"CHARTTIME", "chartime"}

\* get_feature_description(feature, item_dict): [raised, info].  desc is a
\* text: the column id, or '<primitive>(<item or label>)'.
get_feature_description(feature, item_dict) ==
    LET entityId == get_relevant_entity_id(feature)
        columnId == get_relevant_column_id(feature, DefaultIgnoreColumns)
        info == [id |-> feature.name, primitive |-> feature.primitive,
                 entityId |-> entityId.value, columnId |-> columnId.value,
                 alias |-> columnId.value, desc |-> <<columnId.value>>]
        parts == split_equals(feature.where.name)
        item == [columnId |-> parts[1][1], itemId |-> parts[2][1]]
        filtered == [info EXCEPT !.alias = feature.primitive,
                                 !.desc = <<feature.primitive, "(", item.itemId, ")">>]
        labels == hd_item_dict_get(item_dict, entityId.value)
    IN  IF entityId.raised # None THEN [raised |-> entityId.raised, info |-> NoneValue]
        ELSE IF columnId.raised # None THEN [raised |-> columnId.raised, info |-> NoneValue]
        ELSE IF "where" \notin DOMAIN feature THEN [raised |-> None, info |-> info]
        ELSE IF ~item_dict.supplied
        THEN [raised |-> None, info |-> set_item(filtered, "item", item)]
        ELSE IF ~labels.found
        THEN [raised |-> "AttributeError", info |-> NoneValue]
        ELSE LET itemAlias == IF item.itemId \in DOMAIN labels.value
                              THEN labels.value[item.itemId] ELSE None
             IN  [raised |-> None,
                  info |-> set_item([filtered EXCEPT
                                        !.desc = <<feature.primitive, "(", itemAlias, ")">>],
                                    "item", set_item(item, "itemAlias", itemAlias))]

\* One pass of the loop of group_features_by_where_item over features[i]
\* (i counts from 0).  acc holds grouped_features, where_item_group (item id
\* -> the position of its group node in grouped_features and the parent
\* id) and the exception raised, if any.
where_item_step(acc, i, f) ==
    IF acc.raised # None \/ "parentId" \in DOMAIN f \/ "item" \notin DOMAIN f
    THEN acc
    ELSE IF "itemId" \notin DOMAIN f.item
    THEN [acc EXCEPT !.raised = "TypeError"]
    ELSE LET itemId == f.item.itemId
         IN  IF itemId \in DOMAIN acc.group
             THEN LET g == acc.group[itemId]
                  IN  [acc EXCEPT
                          !.grouped[g.node] =
                              set_item(@, "childrenIds", Append(@.childrenIds, i)),
                          !.grouped[i + 1] = set_item(@, "parentId", g.parentId)]
             ELSE IF "itemAlias" \notin DOMAIN f.item
             THEN [acc EXCEPT !.raised = "KeyError"]
             ELSE LET group_node ==
                          set_item(set_item(set_item(set_item(f,
                              "id", itemId),
                              "primitive", None),
                              "childrenIds", <<i>>),
                              "alias", f.item.itemAlias)
                      appended_to == Append(acc.grouped, group_node)
                      parentId == Len(appended_to)
                  IN  [raised |-> None,
                       grouped |-> [appended_to EXCEPT
                                       ![i + 1] = set_item(@, "parentId", parentId)],
                       group |-> (itemId :> [node |-> Len(appended_to),
                                             parentId |-> parentId]) @@ acc.group]

RECURSIVE where_item_loop(_, _, _)
where_item_loop(acc, features, i) ==
    IF i >= Len(features) THEN acc
    ELSE where_item_loop(where_item_step(acc, i, features[i + 1]), features, i + 1)

\* group_features_by_where_item writing into the list it was given (no
\* deepcopy of features).
group_features_by_where_item_in_place(features) ==
    LET out == where_item_loop([raised |-> None, grouped |-> features, group |-> <<>>],
                               features, 0)
    IN  [raised |-> out.raised, grouped |-> out.grouped, features |-> out.grouped]

\* group_features_by_where_item(features): the exception raised, the list
\* returned, and the list object features after the call.
group_features_by_where_item(features) ==
    LET out == where_item_loop([raised |-> None, grouped |-> features, group |-> <<>>],
                               features, 0)
    IN  [raised |-> out.raised, grouped |-> out.grouped, features |-> features]

\* One pass of the loop of group_features_by_entity that never records a
\* second child of an entity group.
entity_step_forgetting(acc, i, f) ==
    IF "parentId" \in DOMAIN f THEN acc
    ELSE IF f.entityId \in DOMAIN acc.group
    THEN [acc EXCEPT !.grouped[i + 1] =
                         set_item(@, "parentId", acc.group[f.entityId].parentId)]
    ELSE LET group_node ==
                 set_item(set_item(set_item(set_item(set_item(set_item(f,
                     "id", f.entityId),
                     "primitive", None),
                     "columnId", None),
                     "item", NoneValue),
                     "alias", f.entityId),
                     "childrenIds", <<i>>)
             appended_to == Append(acc.grouped, group_node)
             parentId == Len(appended_to)
         IN  [grouped |-> [appended_to EXCEPT
                              ![i + 1] = set_item(@, "parentId", parentId)],
              group |-> (f.entityId :> [node |-> Len(appended_to),
                                        parentId |-> parentId]) @@ acc.group]

\* One pass of the loop of group_features_by_entity over features[i].
entity_step(acc, i, f) ==
    IF "parentId" \in DOMAIN f THEN acc
    ELSE LET entityId == f.entityId
         IN  IF entityId \in DOMAIN acc.group
             THEN LET g == acc.group[entityId]
                  IN  [acc EXCEPT
                          !.grouped[g.node] =
                              set_item(@, "childrenIds", Append(@.childrenIds, i)),
                          !.grouped[i + 1] = set_item(@, "parentId", g.parentId)]
             ELSE LET group_node ==
                          set_item(set_item(set_item(set_item(set_item(set_item(f,
                              "id", entityId),
                              "primitive", None),
                              "columnId", None),
                              "item", NoneValue),
                              "alias", entityId),
                              "childrenIds", <<i>>)
                      appended_to == Append(acc.grouped, group_node)
                      parentId == Len(appended_to)
                  IN  [grouped |-> [appended_to EXCEPT
                                       ![i + 1] = set_item(@, "parentId", parentId)],
                       group |-> (entityId :> [node |-> Len(appended_to),
                                               parentId |-> parentId]) @@ acc.group]

RECURSIVE entity_loop(_, _, _)
entity_loop(acc, features, i) ==
    IF i >= Len(features) THEN acc
    ELSE entity_loop(entity_step(acc, i, features[i + 1]), features, i + 1)

\* group_features_by_entity(features): the list returned and the list
\* object features after the call.
group_features_by_entity(features) ==
    LET out == entity_loop([grouped |-> features, group |-> <<>>], features, 0)
    IN  [grouped |-> out.grouped, features |-> features]

\* The hierarchy of a flat descriptor list: group_features_by_where_item,
\* then group_features_by_entity on what it returned.
build_hierarchy(descriptors) ==
    LET by_item == group_features_by_where_item(descriptors)
    IN  IF by_item.raised # None
        THEN [raised |-> by_item.raised, nodes |-> <<>>, features |-> by_item.features]
        ELSE [raised |-> None,
              nodes |-> group_features_by_entity(by_item.grouped).grouped,
              features |-> by_item.features]

HdInit ==
    /\ CoreIdle
    /\ ServiceIdle
    /\ PruneIdle
    /\ GenerateIdle
    /\ WhatIfIdle
    /\ hd_pc = "call"
    /\ hd_features \in FeatureLists
    /\ hd_item_dict \in ItemDicts
    /\ hd_described = <<>>
    /\ hd_flat = <<>>
    /\ hd_where = <<>>
    /\ hd_tree = <<>>
    /\ hd_tree2 = <<>>

\* [get_feature_description(f, item_dict) for f in features]
HdDescribe ==
    /\ hd_pc = "call"
    /\ LET described == [i \in DOMAIN hd_features |->
                            get_feature_description(hd_features[i], hd_item_dict)]
       IN  /\ hd_described' = described
           /\ IF \A i \in DOMAIN described : described[i].raised = None
              THEN /\ hd_flat' = [i \in DOMAIN described |-> described[i].info]
                   /\ hd_pc' = "described"
              ELSE /\ hd_flat' = <<>>
                   /\ hd_pc' = "description failed"
    /\ UNCHANGED <<serviceVars, coreVars, whatIfVars, pruneVars, generateVars, hd_features, hd_item_dict,
                   hd_where, hd_tree, hd_tree2>>

\* by_item = group_features_by_where_item(descriptors)
HdGroupByWhereItem ==
    /\ hd_pc = "described"
    /\ LET out == group_features_by_where_item(hd_flat)
       IN  /\ hd_flat' = out.features
           /\ IF out.raised # None
              THEN /\ hd_pc' = out.raised
                   /\ hd_tree' = [raised |-> out.raised, nodes |-> <<>>]
                   /\ UNCHANGED hd_where
              ELSE /\ hd_pc' = "grouped by item"
                   /\ hd_where' = out.grouped
                   /\ UNCHANGED hd_tree
    /\ UNCHANGED <<serviceVars, coreVars, whatIfVars, pruneVars, generateVars, hd_features, hd_item_dict,
                   hd_described, hd_tree2>>

\* nodes = group_features_by_entity(by_item)
HdGroupByEntity ==
    /\ hd_pc = "grouped by item"
    /\ LET out == group_features_by_entity(hd_where)
       IN  /\ hd_where' = out.features
           /\ hd_tree' = [raised |-> None, nodes |-> out.grouped]
    /\ hd_pc' = "built"
    /\ UNCHANGED <<serviceVars, coreVars, whatIfVars, pruneVars, generateVars, hd_features, hd_item_dict,
                   hd_described, hd_flat, hd_tree2>>

\* The hierarchy built a second time from the same list object.
HdBuildAgain ==
    /\ hd_pc \in {"built", "KeyError"}
    /\ LET out == build_hierarchy(hd_flat)
       IN  /\ hd_tree2' = [raised |-> out.raised, nodes |-> out.nodes]
           /\ hd_flat' = out.features
    /\ hd_pc' = "built twice"
    /\ UNCHANGED <<serviceVars, coreVars, whatIfVars, pruneVars, generateVars, hd_features, hd_item_dict,
                   hd_described, hd_where, hd_tree>>

HdNext == HdDescribe \/ HdGroupByWhereItem \/ HdGroupByEntity \/ HdBuildAgain

SpecHierarchy == HdInit /\ [][HdNext]_vars

(***************************************************************************)
(* router/resources/feature_explanation.py: get_what_if_shap_values        *)
(***************************************************************************)
\* The rows of the feature matrix (the reference population, the instance
\* among them).
WiRows == 6

WiRowIds == 1..WiRows

\* The cells of a feature matrix: a number, NaN, or a string.
Num(x) == [nan |-> FALSE, value |-> x]

NaNCell == [nan |-> TRUE, value |-> 0]

Str(x) == [nan |-> FALSE, str |-> x]

\* The columns of the matrix in order; GENDER is not numeric.
WiColumns == <<"AGE", "GENDER", "MEAN(LABEVENTS.VALUENUM)">>

WiNumeric == {"AGE", "MEAN(LABEVENTS.VALUENUM)"}

\* The prediction targets model_manager.models holds, in key order.
Targets == <<"mortality", "readmission">>

\* A numeric column: the instance's value, and the other rows all equal,
\* spread around their mean, or missing.
InstanceValues == {NaNCell, Num(1), Num(2), Num(10), Num(-8)}

ReferenceKinds == {"constant", "spread", "missing"}

numeric_column(id, v, kind) ==
    [r \in WiRowIds |->
        IF r = id THEN v
        ELSE IF kind = "constant" THEN Num(1)
        ELSE IF kind = "spread" THEN Num(IF r % 2 = 0 THEN 0 ELSE 2)
        ELSE NaNCell]

\* The feature matrices: each column present or not.
ColumnChoices ==
    {c \in [present : BOOLEAN, v : InstanceValues, kind : ReferenceKinds] :
        ~c.present => (c.v = NaNCell /\ c.kind = "constant")}

feature_frame(id, choice, gender) ==
    LET present == {c \in WiNumeric : choice[c].present}
                       \cup (IF gender THEN {"GENDER"} ELSE {})
    IN  [columns |-> SelectSeq(WiColumns, LAMBDA c : c \in present),
         values |-> [c \in present |->
                        IF c = "GENDER"
                        THEN [r \in WiRowIds |-> Str(IF r % 2 = 0 THEN "F" ELSE "M")]
                        ELSE numeric_column(id, choice[c].v, choice[c].kind)]]

\* fm.select_dtypes(include=[np.number]).columns
numeric_cols(fm) == SelectSeq(fm.columns, LAMBDA c : c \in WiNumeric)

RECURSIVE SumOver(_, _, _)
\* The sum of the p-th powers of the non-missing cells of a column.
SumOver(column, rows, p) ==
    IF rows = {} THEN 0
    ELSE LET r == CHOOSE x \in rows : TRUE
             term == IF column[r].nan THEN 0
                     ELSE IF p = 2 THEN column[r].value * column[r].value
                     ELSE column[r].value
         IN  term + SumOver(column, rows \ {r}, p)

\* numeric_fm.agg(['mean', 'count', 'std']) for one column, kept exact:
\* mean = sum / count and std^2 = (count * squares - sum^2) /
\* (count * (count - 1)), undefined for count < 2.
stat(fm, c) ==
    [count |-> Cardinality({r \in WiRowIds : ~fm.values[c][r].nan}),
     sum |-> SumOver(fm.values[c], WiRowIds, 1),
     squares |-> SumOver(fm.values[c], WiRowIds, 2)]

\* |v - mean| > 1.96 * std, squared and cleared of denominators
\* (1.96^2 = 2401 / 625); False when v is NaN or std is NaN.
beyond(v, st) ==
    LET d == st.count * v.value - st.sum
    IN  /\ ~v.nan
        /\ st.count >= 2
        /\ d * d * (st.count - 1) * 625
               > 2401 * st.count * (st.count * st.squares - st.sum * st.sum)

\* The comparison made against the mean instead of the upper boundary.
above_high_of_mean(v, st) == ~v.nan /\ st.count * v.value > st.sum

\* numeric_target_fv > stat['high']
above_high(v, st) == beyond(v, st) /\ st.count * v.value > st.sum

\* numeric_target_fv < stat['low']
below_low(v, st) == beyond(v, st) /\ st.count * v.value < st.sum

\* stat.loc[feature]['high'] and ['low']: mean +- std * 1.96 of the column.
boundary(st, side) ==
    [nan |-> FALSE, bound |-> side, count |-> st.count, sum |-> st.sum,
     squares |-> st.squares]

\* target_fv = fm.loc[direct_id]
target_fv(fm, id) == [c \in Range(fm.columns) |-> fm.values[c][id]]

high_features(fm, id) ==
    SelectSeq(numeric_cols(fm), LAMBDA c : above_high(target_fv(fm, id)[c], stat(fm, c)))

low_features(fm, id) ==
    SelectSeq(numeric_cols(fm), LAMBDA c : below_low(target_fv(fm, id)[c], stat(fm, c)))

\* One column of high_fm with nothing written on its diagonal.
perturb_row_unperturbed(fv, feature, bound) == fv

\* One column of high_fm / low_fm (a row of its transpose): the instance's
\* values, with the boundary written at [feature, feature].
perturb_row(fv, feature, bound) == [fv EXCEPT ![feature] = bound]

\* high_fm.T / low_fm.T: one row per out-of-range feature, labelled by it.
perturbed_frame(fm, id, features, side) ==
    [index |-> features,
     rows |-> [f \in Range(features) |->
                  perturb_row(target_fv(fm, id), f, boundary(stat(fm, f), side))]]

\* model_manager.explain(X=X, target=target): the attribution of every
\* column for every row of X.  Model.SHAP of the repository labels the rows
\* by X.index; "positional" is a manager whose frame is labelled 0, 1, ...
Managers == {"ModelManager", "positional"}

explain(manager, X, target) ==
    [index |-> [k \in DOMAIN X.index |->
                   IF manager = "ModelManager"
                   THEN [str |-> X.index[k]] ELSE [int |-> k - 1]],
     values |-> [k \in DOMAIN X.index |->
                    [c \in DOMAIN X.rows[X.index[k]] |->
                        [shap |-> c, target |-> target, row |-> X.rows[X.index[k]]]]]]

\* model_manager.predict_proba(X=X)[target]: one probability per row of X.
predict_proba(X, target) ==
    [k \in DOMAIN X.index |-> [proba |-> target, row |-> X.rows[X.index[k]]]]

\* explanations.loc[i, feature]: the row labelled by the integer i.
loc(explanations, i, feature) ==
    IF \E k \in DOMAIN explanations.index : explanations.index[k] = [int |-> i]
    THEN [raised |-> None,
          value |-> explanations.values[CHOOSE k \in DOMAIN explanations.index :
                                            explanations.index[k] = [int |-> i]][feature]]
    ELSE [raised |-> "KeyError", value |-> None]

RECURSIVE record_entries(_, _, _, _, _)
\* for i, feature in enumerate(features): shap_task[feature] = {...}
record_entries(shap_task, features, explanations, predictions, i) ==
    IF i >= Len(features) THEN [raised |-> None, shap_task |-> shap_task]
    ELSE LET feature == features[i + 1]
             cell == loc(explanations, i, feature)
         IN  IF cell.raised # None
             THEN [raised |-> cell.raised, shap_task |-> shap_task]
             ELSE record_entries(set_item(shap_task, feature,
                                          [shap |-> cell.value,
                                           prediction |-> predictions[i + 1]]),
                                 features, explanations, predictions, i + 1)

\* No call of the manager raises.
NoFailure == [target |-> None, side |-> None]

\* The calls of explain that may raise: the one for a target and a side.
Failures ==
    {NoFailure, [target |-> Targets[1], side |-> "low"],
     [target |-> Targets[2], side |-> "high"]}

\* An instance identifier that is no row of the feature matrix.
UnknownId == WiRows + 1

\* Lines 79-92 (side "high") and 95-108 (side "low"): the frames handed to
\* the manager and shap_task after the block; explain raises when it is the
\* failing call.
perturb_block(fm, id, manager, target, shap_task, side, failing) ==
    LET features == IF side = "high" THEN high_features(fm, id) ELSE low_features(fm, id)
        X == perturbed_frame(fm, id, features, side)
    IN  IF Len(features) = 0
        THEN [raised |-> None, shap_task |-> shap_task, calls |-> <<>>]
        ELSE IF failing = [target |-> target, side |-> side]
        THEN [raised |-> "Exception", shap_task |-> shap_task,
              calls |-> <<[fn |-> "explain", X |-> X, target |-> target]>>]
        ELSE LET done == record_entries(shap_task, features, explain(manager, X, target),
                                        predict_proba(X, target), 0)
             IN  [raised |-> done.raised, shap_task |-> done.shap_task,
                  calls |-> <<[fn |-> "explain", X |-> X, target |-> target],
                              [fn |-> "predict_proba", X |-> X, target |-> target]>>]

\* {t: {} for t in targets}
empty_by_target(targets) == [t \in Range(targets) |-> <<>>]

\* The except clause: {} if target is not None, else a dict of empty dicts.
except_return(target, target_arg) ==
    IF target # None THEN <<>>
    ELSE empty_by_target(IF target_arg = None THEN Targets ELSE <<target_arg>>)

WiInit ==
    /\ CoreIdle
    /\ ServiceIdle
    /\ PruneIdle
    /\ GenerateIdle
    /\ HierarchyIdle
    /\ wi_pc = "call"
    /\ direct_id \in {1, 2, UnknownId}
    /\ \E choice \in [WiNumeric -> ColumnChoices], gender \in BOOLEAN :
           wi_fm = feature_frame(direct_id, choice, gender)
    /\ wi_manager \in Managers
    /\ wi_target_arg \in {None, Targets[1]}
    /\ wi_target = wi_target_arg
    /\ wi_targets = <<>>
    /\ wi_shap_task = <<>>
    /\ wi_shap_values = <<>>
    /\ wi_calls = <<>>
    /\ wi_out = <<>>
    /\ wi_failing \in Failures
    /\ wi_raised = FALSE

\* Lines 56-71: the targets, the numeric columns and their statistics.
WiStatistics ==
    /\ wi_pc = "call"
    /\ LET targets == IF wi_target = None THEN Targets ELSE <<wi_target>>
       IN  IF Len(numeric_cols(wi_fm)) = 0
           THEN /\ wi_pc' = "returned"
                /\ wi_out' = IF wi_target # None THEN <<>> ELSE empty_by_target(targets)
                /\ UNCHANGED <<wi_targets, wi_raised>>
           ELSE IF direct_id \notin WiRowIds
           THEN \* fm.loc[direct_id] raises KeyError
                /\ wi_pc' = "returned"
                /\ wi_out' = except_return(wi_target, wi_target_arg)
                /\ wi_raised' = TRUE
                /\ UNCHANGED wi_targets
           ELSE /\ wi_pc' = "high"
                /\ wi_targets' = targets
                /\ UNCHANGED <<wi_out, wi_raised>>
    /\ UNCHANGED <<serviceVars, coreVars, pruneVars, generateVars, hierarchyVars, wi_fm, wi_manager,
                   direct_id, wi_target, wi_shap_task, wi_shap_values, wi_calls,
                   wi_target_arg, wi_failing>>

\* for target in targets: shap_task = {}, then lines 78-92
WiHigh ==
    /\ wi_pc = "high"
    /\ LET target == Head(wi_targets)
           block == perturb_block(wi_fm, direct_id, wi_manager, target, <<>>, "high",
                                  wi_failing)
       IN  /\ wi_target' = target
           /\ wi_calls' = wi_calls \o block.calls
           /\ wi_shap_task' = block.shap_task
           /\ IF block.raised # None
              THEN /\ wi_pc' = "returned"
                   /\ wi_out' = except_return(target, wi_target_arg)
                   /\ wi_raised' = TRUE
              ELSE /\ wi_pc' = "low"
                   /\ UNCHANGED <<wi_out, wi_raised>>
    /\ UNCHANGED <<serviceVars, coreVars, pruneVars, generateVars, hierarchyVars, wi_fm, wi_manager,
                   direct_id, wi_targets, wi_shap_values, wi_target_arg, wi_failing>>

\* Lines 94-109, and the step to the next target.
WiLow ==
    /\ wi_pc = "low"
    /\ LET block == perturb_block(wi_fm, direct_id, wi_manager, wi_target,
                                  wi_shap_task, "low", wi_failing)
       IN  /\ wi_calls' = wi_calls \o block.calls
           /\ wi_shap_task' = block.shap_task
           /\ IF block.raised # None
              THEN /\ wi_pc' = "returned"
                   /\ wi_out' = except_return(wi_target, wi_target_arg)
                   /\ wi_raised' = TRUE
                   /\ UNCHANGED <<wi_targets, wi_shap_values>>
              ELSE /\ wi_shap_values' = set_item(wi_shap_values, wi_target,
                                                 block.shap_task)
                   /\ wi_targets' = Tail(wi_targets)
                   /\ wi_pc' = IF Tail(wi_targets) = <<>> THEN "return" ELSE "high"
                   /\ UNCHANGED <<wi_out, wi_raised>>
    /\ UNCHANGED <<serviceVars, coreVars, pruneVars, generateVars, hierarchyVars, wi_fm, wi_manager,
                   direct_id, wi_target, wi_target_arg, wi_failing>>

\* Lines 111-113: target is the loop's last target by now.
WiReturn ==
    /\ wi_pc = "return"
    /\ wi_out' = IF wi_target # None THEN wi_shap_values[wi_target] ELSE wi_shap_values
    /\ wi_pc' = "returned"
    /\ UNCHANGED <<serviceVars, coreVars, pruneVars, generateVars, hierarchyVars, wi_fm, wi_manager,
                   direct_id, wi_target, wi_targets, wi_shap_task, wi_shap_values,
                   wi_calls, wi_target_arg, wi_failing, wi_raised>>

WiNext == WiStatistics \/ WiHigh \/ WiLow \/ WiReturn

SpecWhatIf == WiInit /\ [][WiNext]_vars

(***************************************************************************)
(* dataset/*/tasks/mortality.py: get_cutoff_times                          *)
(***************************************************************************)
\* timedelta(hours=72) of the MIMIC demo task and timedelta(hours=48) of
\* the PIC task.
MimicCutoffHours == 72

PicCutoffHours == 48

\* The dataset_id of the two in-admission mortality tasks.
Datasets == {"mimic-demo", "pic"}

cutoff_hours(dataset_id) ==
    IF dataset_id = "pic" THEN PicCutoffHours ELSE MimicCutoffHours

\* The ADMISSIONS rows, times in hours: admission i is admitted a day after
\* admission i - 1.
Admissions == [i \in InstanceIds |-> [HADM_ID |-> i, ADMITTIME |-> 24 * (i - 1)]]

\* Hours after admission at which a record is charted.
ChartOffsets == {47, 48, 49, 72, 73}

\* The rows of a backward entity (LABEVENTS, CHARTEVENTS).
EventRows ==
    {[HADM_ID |-> i, CHARTTIME |-> Admissions[i].ADMITTIME + o] :
        i \in InstanceIds, o \in ChartOffsets}

\* get_cutoff_times(es): the frame (instance_id, time) with the task's hours
\* added to the time index of the target entity.
get_cutoff_times(dataset_id, entity_df) ==
    [i \in DOMAIN entity_df |-> entity_df[i].ADMITTIME + cutoff_hours(dataset_id)]

CtInit ==
    /\ CoreIdle
    /\ FeatureIdle
    /\ SelectorIdle
    /\ ReferenceIdle
    /\ ct_pc = "call"
    /\ ct_task \in Datasets
    /\ ct_admissions = Admissions
    /\ ct_events \in UNION {[1..n -> EventRows] : n \in 0..MaxRows}
    /\ ct_cutoff_time = <<>>
    /\ ct_window = <<>>

\* cutoff_time = self.task.get_cutoff_times(self.es)
CtGetCutoffTimes ==
    /\ ct_pc = "call"
    /\ ct_cutoff_time' = get_cutoff_times(ct_task, ct_admissions)
    /\ ct_pc' = "cutoff times"
    /\ UNCHANGED <<coreVars, featureVars, selectorVars, referenceVars, ct_task,
                   ct_admissions, ct_events, ct_window>>

\* self._lab_tests(cutoff_time=cutoff_time) / self._chart_events(...): dfs
\* aggregates, for every admission, its rows at or before its cutoff time.
CtGenerateFeatures ==
    /\ ct_pc = "cutoff times"
    /\ ct_window' = [i \in DOMAIN ct_admissions |->
                        dfs_rows(ct_events, ct_admissions[i].HADM_ID, ct_cutoff_time[i])]
    /\ ct_pc' = "generated"
    /\ UNCHANGED <<coreVars, featureVars, selectorVars, referenceVars, ct_task,
                   ct_admissions, ct_events, ct_cutoff_time>>

CtNext == CtGetCutoffTimes \/ CtGenerateFeatures

SpecTaskCutoff == CtInit /\ [][CtNext]_vars

(***************************************************************************)
(* router/resources/cohort_selector.py: SelectorExtent.put, run by         *)
(* concurrent requests next to a request that reads the settings           *)
(***************************************************************************)
\* The concurrent PUT requests.
NumRequests == 2

Requests == 1..NumRequests

\* The values of the 'extents' argument: two selections, and a string that
\* json.loads rejects.
NotJson == "not JSON"

ExtentsArguments == {"[A]", "[B]", NotJson}

\* The selection the application starts with.
InitialExtents == "[]"

SeInit ==
    /\ CoreIdle
    /\ FeatureIdle
    /\ TaskIdle
    /\ ReferenceIdle
    /\ se_pc = [r \in Requests |-> "parse"]
    /\ se_extents \in [Requests -> ExtentsArguments]
    /\ settings = [selector_vars |-> InitialExtents,
                   selector |-> [extents |-> InitialExtents]]
    /\ rd_pc = "start"
    /\ rd_seen = <<>>

\* Lines 42-47: extents = json.loads(args.get('extents', '[]')), or the 400
\* response.
SeParse ==
    \E r \in Requests :
        /\ se_pc[r] = "parse"
        /\ se_pc' = [se_pc EXCEPT ![r] = IF se_extents[r] = NotJson THEN "400"
                                         ELSE "line 50"]
        /\ UNCHANGED <<coreVars, featureVars, taskVars, referenceVars, se_extents,
                       settings, rd_pc, rd_seen>>

\* current_app.settings['selector_vars'] = extents
SeWriteSelectorVars ==
    \E r \in Requests :
        /\ se_pc[r] = "line 50"
        /\ settings' = [settings EXCEPT !.selector_vars = se_extents[r]]
        /\ se_pc' = [se_pc EXCEPT ![r] = "line 51"]
        /\ UNCHANGED <<coreVars, featureVars, taskVars, referenceVars, se_extents,
                       rd_pc, rd_seen>>

\* current_app.settings['selector'].extents = extents
SeWriteSelectorExtents ==
    \E r \in Requests :
        /\ se_pc[r] = "line 51"
        /\ settings' = [settings EXCEPT !.selector.extents = se_extents[r]]
        /\ se_pc' = [se_pc EXCEPT ![r] = "line 52"]
        /\ UNCHANGED <<coreVars, featureVars, taskVars, referenceVars, se_extents,
                       rd_pc, rd_seen>>

\* return jsonify(current_app.settings['selector'].index.tolist())
SeReturnIndex ==
    \E r \in Requests :
        /\ se_pc[r] = "line 52"
        /\ se_pc' = [se_pc EXCEPT ![r] = "returned"]
        /\ UNCHANGED <<coreVars, featureVars, taskVars, referenceVars, se_extents,
                       settings, rd_pc, rd_seen>>

\* A reading request: settings = current_app.settings binds the shared
\* dictionary itself, not a copy.
RdTakeSettings ==
    /\ rd_pc = "start"
    /\ rd_pc' = "has settings"
    /\ UNCHANGED <<coreVars, featureVars, taskVars, referenceVars, se_pc, se_extents,
                   settings, rd_seen>>

\* The request reads its keys from the shared dictionary: the selection it
\* finds there.
RdRead ==
    /\ rd_pc = "has settings"
    /\ rd_seen' = [selector_vars |-> settings.selector_vars,
                   extents |-> settings.selector.extents]
    /\ rd_pc' = "returned"
    /\ UNCHANGED <<coreVars, featureVars, taskVars, referenceVars, se_pc, se_extents,
                   settings>>

SeNext ==
    \/ SeParse
    \/ SeWriteSelectorVars
    \/ SeWriteSelectorExtents
    \/ SeReturnIndex
    \/ RdTakeSettings
    \/ RdRead

SpecSelector == SeInit /\ [][SeNext]_vars

(***************************************************************************)
(* router/resources/reference_value.py: get_reference_values_by_entity     *)
(***************************************************************************)
\* The largest number of records of the entity.
RvRows == 3

RvSubjects == {1, 2}

RvItems == {"HR", "SpO2"}

\* The entity's schema: 'item_index' is ITEMID, 'value_indexes' is [VALUE].
value_indexes == <<"VALUE">>

\* The records of the entity: the value is a number or missing.
RvRecords ==
    [SUBJECT_ID : RvSubjects, ITEMID : RvItems, VALUE : {NaNCell, Num(0), Num(5)}]

\* subject_ids: None, or a list of subjects.
RvSubjectIds ==
    {[none |-> TRUE]} \cup {[none |-> FALSE, ids |-> S] : S \in SUBSET RvSubjects}

RECURSIVE RvSum(_, _, _)
\* The sum of the p-th powers of the non-missing values of a column.
RvSum(group, col, p) ==
    IF group = <<>> THEN 0
    ELSE LET v == Head(group)[col]
             term == IF v.nan THEN 0
                     ELSE IF p = 2 THEN v.value * v.value ELSE v.value
         IN  term + RvSum(Tail(group), col, p)

\* group[1][col].agg(['mean', 'count', 'std']), kept exact: count is the
\* number of non-missing values, mean = sum / count is NaN without values,
\* and std, given by its square (count * squares - sum^2) /
\* (count * (count - 1)), is NaN with fewer than two values.
agg(group, col) ==
    LET count == Len(SelectSeq(group, LAMBDA r : ~r[col].nan))
        sum == RvSum(group, col, 1)
        squares == RvSum(group, col, 2)
    IN  [mean |-> IF count = 0 THEN [nan |-> TRUE]
                  ELSE [nan |-> FALSE, num |-> sum, den |-> count],
         count |-> count,
         std |-> IF count < 2 THEN [nan |-> TRUE]
                 ELSE [nan |-> FALSE, sq_num |-> count * squares - sum * sum,
                       sq_den |-> count * (count - 1)]]

\* The number num / den + k * 1.96 * sqrt(sq_num / sq_den).
Float(num, den, k, sq_num, sq_den) ==
    [num |-> num, den |-> den, k |-> k, sq_num |-> sq_num, sq_den |-> sq_den]

FloatZero == Float(0, 1, 0, 0, 1)

\* mean + k * 1.96 * std in floating point: NaN when either operand is.
mean_plus(mean, k, std) ==
    IF mean.nan \/ std.nan THEN [nan |-> TRUE]
    ELSE [nan |-> FALSE,
          float |-> Float(mean.num, mean.den, k, std.sq_num, std.sq_den)]

\* Lines 35-41: the entry of one item and one value column.
item_reference(group, col) ==
    LET a == agg(group, col)
        low == mean_plus(a.mean, -1, a.std)
        high == mean_plus(a.mean, 1, a.std)
    IN  [mean |-> IF a.mean.nan THEN FloatZero
                  ELSE Float(a.mean.num, a.mean.den, 0, 0, 1),
         std |-> IF a.std.nan THEN [sq_num |-> 0, sq_den |-> 1]
                 ELSE [sq_num |-> a.std.sq_num, sq_den |-> a.std.sq_den],
         count |-> a.count,
         ci95 |-> <<IF low.nan THEN FloatZero ELSE low.float,
                    IF high.nan THEN FloatZero ELSE high.float>>]

\* Lines 23-43: the optional filter by subject, then one entry per item
\* that has records and per value column.
get_reference_values_by_entity(es_df, subject_ids) ==
    LET df == IF subject_ids.none THEN es_df
              ELSE SelectSeq(es_df, LAMBDA r : r.SUBJECT_ID \in subject_ids.ids)
        groups == {r.ITEMID : r \in Range(df)}
    IN  [item_name \in groups |->
            [col \in Range(value_indexes) |->
                item_reference(SelectSeq(df, LAMBDA r : r.ITEMID = item_name), col)]]

RvInit ==
    /\ CoreIdle
    /\ FeatureIdle
    /\ TaskIdle
    /\ SelectorIdle
    /\ rv_pc = "start"
    /\ rv_df \in UNION {[1..n -> RvRecords] : n \in 0..RvRows}
    /\ rv_subject_ids \in RvSubjectIds
    /\ rv_references = <<>>

RvGetReferenceValues ==
    /\ rv_pc = "start"
    /\ rv_references' = get_reference_values_by_entity(rv_df, rv_subject_ids)
    /\ rv_pc' = "returned"
    /\ UNCHANGED <<coreVars, featureVars, taskVars, selectorVars, rv_df, rv_subject_ids>>

RvNext == RvGetReferenceValues

SpecReference == RvInit /\ [][RvNext]_vars

(***************************************************************************)
(* Properties of find_path                                                 *)
(***************************************************************************)
\* A direct relationship joins a and b, in either direction.
Adjacent(relationships, a, b) ==
    \E i \in DOMAIN relationships :
        \/ relationships[i].parent_entity_id = a /\ relationships[i].child_entity_id = b
        \/ relationships[i].parent_entity_id = b /\ relationships[i].child_entity_id = a

RECURSIVE WithinHops(_, _, _)
\* The entities at most k hops from the set S in the undirected graph.
WithinHops(relationships, S, k) ==
    IF k = 0 THEN S
    ELSE WithinHops(relationships,
                    S \cup {e \in Entities : \E n \in S : Adjacent(relationships, e, n)},
                    k - 1)

Connected(relationships, a, b) ==
    b \in WithinHops(relationships, {a}, Cardinality(Entities))

\* The minimum number of hops between two connected entities.
HopDistance(relationships, a, b) ==
    CHOOSE k \in 0..Cardinality(Entities) :
        /\ b \in WithinHops(relationships, {a}, k)
        /\ \A j \in 0..(k - 1) : b \notin WithinHops(relationships, {a}, j)

\* C2: whenever find_path returns, the resolved path (the last element of
\* the returned list) starts with the source, ends with the target, holds no
\* entity twice, joins consecutive entities by a direct relationship, and is
\* the single element [source] when source == target.
C2_ResolvedPathIsChain ==
    fp_pc = "returned" =>
        LET resolved == Last(paths)
        IN  /\ Len(resolved) >= 1
            /\ resolved[1] = source_entity
            /\ resolved[Len(resolved)] = target_entity
            /\ \A i, j \in DOMAIN resolved : i # j => resolved[i] # resolved[j]
            /\ \A i \in 1..(Len(resolved) - 1) : Adjacent(entityset, resolved[i], resolved[i + 1])
            /\ (source_entity = target_entity => resolved = <<source_entity>>)

\* C2 witness: a returned path of three hops, and a returned single-element path.
C2_Witness ==
    /\ fp_pc = "returned"
    /\ Len(Last(paths)) = 4
    /\ Len(paths) = 4

\* C3: the returned path has the minimum number of hops among all paths
\* between source and target in the undirected relationship graph.
C3_PathIsShortest ==
    (fp_pc = "returned" /\ Connected(entityset, source_entity, target_entity)) =>
        Len(Last(paths)) - 1 = HopDistance(entityset, source_entity, target_entity)

\* C4: when source and target lie in disconnected components, or the source
\* is no entity of the graph, find_path fails and never returns a path.
C4_NoPathFails ==
    (\/ ~Connected(entityset, source_entity, target_entity)
     \/ source_entity \notin Entities) =>
        fp_pc # "returned"

\* Disconnected source and target (two different names) always end in the
\* KeyError of parent_dict[node]; only source == target escapes it.
FpDisconnectedRaises ==
    (fp_pc \in {"returned", "KeyError"} /\ source_entity # target_entity) =>
        (fp_pc = "KeyError" <=> ~Connected(entityset, source_entity, target_entity))

\* The stepwise search and the find_path operator the other components call
\* end alike.
FpStepsAgreeWithCall ==
    fp_pc \in {"returned", "KeyError"} =>
        LET r == find_path(entityset, source_entity, target_entity)
        IN  IF fp_pc = "KeyError"
            THEN r.raised = "KeyError"
            ELSE r.raised = None /\ r.paths = paths

\* The call has returned or raised.
FpTerminated == fp_pc \in {"returned", "KeyError"}

\* The work list holds no entity twice, and only entities already recorded
\* in parent_dict.
FpPipeHoldsRecordedEntitiesOnce ==
    /\ \A i, j \in DOMAIN nodes_pipe : i # j => nodes_pipe[i] # nodes_pipe[j]
    /\ Range(nodes_pipe) \subseteq DOMAIN parent_dict

\* A step puts on the work list only entities not recorded before, and
\* parent_dict never forgets an entity.
FpPushesUnrecordedEntities ==
    /\ DOMAIN parent_dict \subseteq DOMAIN parent_dict'
    /\ nodes_pipe' # nodes_pipe =>
           (Range(nodes_pipe') \ Range(Front(nodes_pipe))) \cap DOMAIN parent_dict = {}

\* C28: on every entity graph, with relationship cycles and several
\* relationships between two entities, each entity is put on the work list
\* at most once, and the call eventually returns a path or fails.
C28_FindPathTerminates ==
    /\ []FpPipeHoldsRecordedEntitiesOnce
    /\ [][FpPushesUnrecordedEntities]_vars
    /\ <>FpTerminated

\* C28 witness: a call has returned a path of two hops or more on a graph
\* with two relationships between the same two entities and a cycle of
\* three entities.
C28_Witness ==
    /\ fp_pc = "returned"
    /\ Len(Last(paths)) >= 3
    /\ \E i, j \in DOMAIN entityset :
           /\ i < j
           /\ entityset[i].parent_entity_id = entityset[j].parent_entity_id
           /\ entityset[i].child_entity_id = entityset[j].child_entity_id
    /\ \E a, b, c \in Entities :
           /\ a # b /\ b # c /\ a # c
           /\ Adjacent(entityset, a, b)
           /\ Adjacent(entityset, b, c)
           /\ Adjacent(entityset, a, c)

(***************************************************************************)
(* Properties of transfer_cutoff_times                                     *)
(***************************************************************************)
\* The child dataframe and foreign-key column of the last completed hop.
HopChild == dataframes[last_hop.relationship.child_entity_id]

HopColumn == last_hop.relationship.child_variable_id

ChildTimes(p) ==
    {prev_cutoff_times[c] : c \in {x \in DOMAIN prev_cutoff_times :
                                       HopChild[x][HopColumn] = p}}

\* C6: after a child-to-parent hop with reduce "latest", each parent with at
\* least one child holding a cutoff time holds the maximum of its
\* children's cutoff times.
C6_LatestIsMaximum ==
    (last_hop.direction = "to_parent" /\ reduce = "latest") =>
        \A p \in InstanceIds :
            ChildTimes(p) # {} =>
                /\ p \in DOMAIN cutoff_times
                /\ cutoff_times[p] = Max(ChildTimes(p))

\* C6 witness: a parent whose children hold two different cutoff times
\* received the later one.
C6_Witness ==
    /\ tc_pc = "returned"
    /\ last_hop.direction = "to_parent"
    /\ reduce = "latest"
    /\ \E p \in DOMAIN cutoff_times :
           /\ Cardinality(ChildTimes(p)) = 2
           /\ cutoff_times[p] > Min(ChildTimes(p))

\* C7: with reduce "earliest" the call succeeds, and after a child-to-parent
\* hop each parent with at least one child holding a cutoff time holds the
\* minimum of its children's cutoff times.
C7_EarliestIsMinimum ==
    reduce = "earliest" =>
        /\ tc_pc # "ValueError: Unknown reduce option"
        /\ last_hop.direction = "to_parent" =>
               \A p \in InstanceIds :
                   ChildTimes(p) # {} =>
                       /\ p \in DOMAIN cutoff_times
                       /\ cutoff_times[p] = Min(ChildTimes(p))

\* C8: a reduce value other than "latest" or "earliest" makes the call fail;
\* it never returns a mapping, whatever the source, target and hops.
C8_InvalidReduceFails ==
    reduce \notin {"latest", "earliest"} => tc_pc # "returned"

RECURSIVE ConnectedInstances(_, _, _)
\* The instances of p[i] connected, hop by hop along the path p, to the
\* source instances S holding a cutoff time.
ConnectedInstances(p, i, S) ==
    IF i >= Len(p) THEN S
    ELSE LET r == hop_options(entityset, p[i], p[i + 1])[1]
             df == dataframes[r.child_entity_id]
             col == r.child_variable_id
         IN  ConnectedInstances(p, i + 1,
                 IF p[i + 1] = r.child_entity_id
                 THEN {c \in DOMAIN df : df[c][col] \in S}
                 ELSE {df[c][col] : c \in S})

\* C9: over a resolved path (with a valid reduction) the call does not fail
\* on instances without a connected source instance, and its output holds
\* an entry exactly for the target instances connected to a source instance
\* that has a cutoff time.
C9_ExactlyConnectedInstances ==
    reduce = "latest" =>
        /\ tc_pc # "KeyError: not in index"
        /\ tc_pc = "returned" =>
               DOMAIN cutoff_times = ConnectedInstances(path, 1, DOMAIN arg_cutoff_times)

\* What does hold of the output: a call that returns left out exactly the
\* unconnected target instances.
TcReturnedDomainIsConnected ==
    tc_pc = "returned" =>
        DOMAIN cutoff_times = ConnectedInstances(path, 1, DOMAIN arg_cutoff_times)

(***************************************************************************)
(* Properties of merge_features                                            *)
(***************************************************************************)
\* The tables of the input whose descriptor list holds the name.
TablesWith(name) ==
    {k \in DOMAIN fl_list : \E i \in DOMAIN fl_list[k] : fl_list[k][i].name = name}

\* C10: for every feature name the input tables hold, the merged column
\* equals the column of the earliest table that has it, the name occurs
\* once in the merged descriptor list (with the earliest table's
\* descriptor), and the merged matrix keeps the first table's row index.
C10_MergePrecedence ==
    mg_pc = "merged" =>
        /\ feature_matrix.index = fm_list[1].index
        /\ \A name \in FeatureNames :
               TablesWith(name) # {} =>
                   LET first == Min(TablesWith(name))
                   IN  /\ name \in Range(feature_matrix.columns)
                       /\ \A id \in InstanceIds :
                              feature_matrix.values[name][id]
                                  = fm_list[first].values[name][id]
                       /\ Cardinality({i \in DOMAIN feature_list :
                                          feature_list[i].name = name}) = 1
                       /\ FeatureBase(name, first) \in Range(feature_list)

\* C10 witness: a merge in which a name occurs in two tables, the earliest
\* of them not being the first table, and whose tables differ in row order.
C10_Witness ==
    /\ mg_pc = "merged"
    /\ \E name \in FeatureNames :
           /\ Cardinality(TablesWith(name)) >= 2
           /\ Min(TablesWith(name)) > 1
    /\ \E k \in DOMAIN fm_list : fm_list[k].index # fm_list[1].index

(***************************************************************************)
(* Properties of get_records and _generate_features                        *)
(***************************************************************************)
\* Every row an instance's aggregation read is dated at or before the
\* instance's cutoff time.
WindowsBeforeCutoff ==
    \A i \in DOMAIN dfs_window :
        \A k \in dfs_window[i] : time_le(entity[k].CHARTTIME, dfs_cutoff[i])

\* Every row get_records returned for a time index and a cutoff time is
\* dated at or before that cutoff time.
RecordsBeforeCutoff ==
    (/\ records_call.called
     /\ records_call.time_index # None
     /\ records_call.cutoff_time # NoCutoff) =>
        \A k \in DOMAIN records_call.entity_df :
            time_le(Column(records_call.entity_df[k], records_call.time_index),
                    records_call.cutoff_time)

\* A dfs run after nothing but rows dated after their instance's cutoff
\* were appended leaves every feature value as the run before left it.
LateRowsChangeNothing ==
    (dfs_fm # <<>> /\ appended = "late" /\ appended' = "none") => dfs_fm' = dfs_fm

C12_PrunedExactlyWherePrefixes ==
    pr_pc = "returned" =>
        /\ \A c \in Range(pr_fm.columns) :
               c \notin Range(pr_out.fm.columns) <=>
                   /\ ~has_where(c)
                   /\ \E f \in Range(pr_fm.columns) : has_where(f) /\ split_where(f) = c
        /\ Range(pr_out.fm.columns) \subseteq Range(pr_fm.columns)
        /\ pr_out.fl = SelectSeq(pr_fl, LAMBDA f : f.name \in Range(pr_out.fm.columns))

\* What does hold: every filtered column is kept, an unfiltered column that
\* is the part before ' WHERE ' of a filtered column is dropped, and the
\* descriptors follow the columns.
PrPrunesAtLeastWherePrefixes ==
    pr_pc = "returned" =>
        /\ \A c \in Range(pr_fm.columns) :
               /\ has_where(c) => c \in Range(pr_out.fm.columns)
               /\ (~has_where(c) /\ \E f \in Range(pr_fm.columns) :
                                        has_where(f) /\ split_where(f) = c)
                      => c \notin Range(pr_out.fm.columns)
        /\ pr_out.fl = SelectSeq(pr_fl, LAMBDA f : f.name \in Range(pr_out.fm.columns))

(***************************************************************************)
(* Properties of generate_features                                         *)
(***************************************************************************)
\* The declared source entities that generate_features computes a table
\* for, in the declared order (forward_entities, then backward_entities).
DeclaredSources == SelectSeq(entity_ids, LAMBDA e : e \in Range(SourceEntities))

\* The sources of the tables in fp, in merge order.
MergedSources == [k \in DOMAIN fp |-> fp[k].source]

\* C11: the per-source tables are merged in the order the task declared its
\* source entities, and the source declared first wins the shared name.
C11_MergeOrderIsDeclaredOrder ==
    (gf_pc = "returned" /\ fp # <<>>) =>
        /\ MergedSources = DeclaredSources
        /\ SharedName \in Range(gf_out.fm.columns) =>
               \A id \in InstanceIds :
                   gf_out.fm.values[SharedName][ToString(id)]
                       = Cell(DeclaredSources[1], SharedName, id)

\* What does hold: the tables are merged in the order of the chain of ifs,
\* whatever the task declared.
GfMergeOrderIsFixed ==
    (gf_pc = "returned" /\ fp # <<>>) =>
        /\ MergedSources = SelectSeq(SourceEntities, LAMBDA e : e \in Range(entity_ids))
        /\ SharedName \in Range(gf_out.fm.columns) =>
               \A id \in InstanceIds :
                   gf_out.fm.values[SharedName][ToString(id)]
                       = Cell(MergedSources[1], SharedName, id)

\* C13: once a requested source's computation has failed, generate_features
\* has returned nothing and written nothing to the store, whatever was
\* computed before; and with a failing requested source it never returns
\* computed features.
C13_FailureDiscardsEverything ==
    /\ gf_pc = "raised" =>
           /\ gf_out = <<>>
           /\ gf_store.saved = <<>>
    /\ (gf_failing \in Range(entity_ids) /\ ~(gf_args.load_exist /\ gf_store.exist)) =>
           /\ gf_pc # "returned"
           /\ gf_store.saved = <<>>

\* C13 witness: the failure came after another source's table was computed,
\* in a call asked to save.
C13_Witness ==
    /\ gf_pc = "raised"
    /\ Len(fp) >= 2
    /\ gf_args.save

(***************************************************************************)
(* Properties of get_feature_description and the grouping functions        *)
(***************************************************************************)
\* The entities the leaf columns of a feature belong to.
LeafEntities(feature) ==
    {get_leaves(feature)[k].dataframe_name : k \in DOMAIN get_leaves(feature)}

FlatList == [i \in DOMAIN hd_described |-> hd_described[i].info]

\* The positions (from 0) of the flat descriptors filtered on an item, in
\* input order.
RECURSIVE PositionsOfItem(_, _)
PositionsOfItem(itemId, i) ==
    IF i > Len(FlatList) THEN <<>>
    ELSE (IF "item" \in DOMAIN FlatList[i] /\ FlatList[i].item.itemId = itemId
          THEN <<i - 1>> ELSE <<>>) \o PositionsOfItem(itemId, i + 1)

FilterItems ==
    {FlatList[i].item.itemId : i \in {k \in DOMAIN FlatList : "item" \in DOMAIN FlatList[k]}}

\* The list group_features_by_where_item returned holds the descriptors in
\* place, then one group node per filter item with the item's children and
\* alias; filtered descriptors have a parent and unfiltered ones none.
GroupedByWhereItem(nodes) ==
    LET n == Len(FlatList)
        groups == (n + 1)..Len(nodes)
    IN  /\ Len(nodes) = n + Cardinality(FilterItems)
        /\ \A item \in FilterItems :
               \E g \in groups :
                   /\ nodes[g].id = item
                   /\ nodes[g].childrenIds = PositionsOfItem(item, 1)
                   /\ nodes[g].alias = FlatList[nodes[g].childrenIds[1] + 1].item.itemAlias
                   /\ \A h \in groups : nodes[h].id = item => h = g
        /\ \A i \in 1..n :
               /\ "item" \in DOMAIN FlatList[i] =>
                      /\ "parentId" \in DOMAIN nodes[i]
                      /\ Cardinality({g \in groups :
                             (i - 1) \in Range(nodes[g].childrenIds)}) = 1
               /\ "item" \notin DOMAIN FlatList[i] => "parentId" \notin DOMAIN nodes[i]

\* C15: on every flat list get_feature_description produced, with or
\* without an item-label dictionary, group_features_by_where_item succeeds
\* and returns the filter groups described above.
C15_WhereItemGroups ==
    /\ hd_pc # "KeyError"
    /\ hd_pc = "grouped by item" => GroupedByWhereItem(hd_where)

\* What does hold: the grouping is right whenever it returns, and it fails
\* exactly when no dictionary was supplied and a descriptor has a filter.
HdWhereItemGroupsWhenLabelled ==
    /\ hd_pc = "grouped by item" => GroupedByWhereItem(hd_where)
    /\ hd_pc = "KeyError" => (~hd_item_dict.supplied /\ FilterItems # {})

\* The entity group nodes of the hierarchy: those after the list
\* group_features_by_entity was given.
EntityGroups == (Len(hd_where) + 1)..Len(hd_tree.nodes)

Parentless == {i \in DOMAIN hd_where : "parentId" \notin DOMAIN hd_where[i]}

\* C16: each node without a parent is a child of exactly one entity group
\* node, the one named for its entityId; there is one entity group node per
\* entityId of such nodes; nodes with a parent are unchanged; no descriptor
\* is in more than one filter group or more than one entity group.
C16_EntityGroups ==
    hd_pc \in {"built", "built twice"} /\ hd_tree.raised = None =>
        LET nodes == hd_tree.nodes
        IN  /\ \A i \in Parentless :
                   /\ Cardinality({g \in EntityGroups :
                          (i - 1) \in Range(nodes[g].childrenIds)}) = 1
                   /\ \A g \in EntityGroups :
                          (i - 1) \in Range(nodes[g].childrenIds) =>
                              nodes[g].id = hd_where[i].entityId
            /\ \A i \in Parentless :
                   Cardinality({g \in EntityGroups :
                       nodes[g].id = hd_where[i].entityId}) = 1
            /\ Cardinality(EntityGroups)
                   = Cardinality({hd_where[i].entityId : i \in Parentless})
            /\ \A i \in DOMAIN hd_where \ Parentless : nodes[i] = hd_where[i]
            /\ \A i \in DOMAIN FlatList :
                   /\ Cardinality({g \in (Len(FlatList) + 1)..Len(hd_where) :
                          (i - 1) \in Range(nodes[g].childrenIds)}) <= 1
                   /\ Cardinality({g \in EntityGroups :
                          (i - 1) \in Range(nodes[g].childrenIds)}) <= 1

\* C16 witness: a hierarchy with two entity groups, one of them holding a
\* filter group next to an unfiltered descriptor.
C16_Witness ==
    /\ hd_pc = "built"
    /\ Cardinality(EntityGroups) >= 2
    /\ \E g \in EntityGroups :
           \E a, b \in Range(hd_tree.nodes[g].childrenIds) :
               a < Len(FlatList) /\ b >= Len(FlatList)

\* C17: the hierarchy built twice from the same flat descriptor list ends
\* alike both times, with the same nodes in the same order (parentId and
\* childrenIds included), and building it leaves the list and every
\* descriptor in it as they were.
C17_HierarchyIdempotent ==
    hd_pc = "built twice" =>
        /\ hd_tree2.raised = hd_tree.raised
        /\ Len(hd_tree2.nodes) = Len(hd_tree.nodes)
        /\ \A i \in DOMAIN hd_tree.nodes : hd_tree2.nodes[i] = hd_tree.nodes[i]
        /\ Len(hd_flat) = Len(FlatList)
        /\ \A i \in DOMAIN FlatList : hd_flat[i] = FlatList[i]

\* C17 witness: a hierarchy of filter groups and entity groups was built
\* twice.
C17_Witness ==
    /\ hd_pc = "built twice"
    /\ hd_tree.raised = None
    /\ Len(hd_where) > Len(FlatList)
    /\ Len(hd_tree2.nodes) >= Len(hd_where) + 2

\* The lists the two grouping functions returned so far.
ReturnedNodeLists ==
    IF hd_pc = "grouped by item" THEN {hd_where}
    ELSE IF hd_pc \in {"built", "built twice"} /\ hd_tree.raised = None
    THEN {hd_where, hd_tree.nodes}
    ELSE {}

\* The positions (from 1) of the synthetic group nodes of a returned list:
\* those after the flat descriptors.
GroupNodes(nodes) == (Len(FlatList) + 1)..Len(nodes)

\* C26: every group node, of a filter item or of an entity, has neither a
\* primitive nor a base column: primitive and columnId are both None.
C26_GroupNodesCarryNothing ==
    \A nodes \in ReturnedNodeLists :
        \A g \in GroupNodes(nodes) :
            /\ nodes[g].primitive = None
            /\ nodes[g].columnId = None

\* No group node has a primitive and no entity group node a column; a
\* filter group node keeps the columnId of the first descriptor of its item.
HdFilterGroupsKeepColumn ==
    \A nodes \in ReturnedNodeLists :
        \A g \in GroupNodes(nodes) :
            /\ nodes[g].primitive = None
            /\ IF g <= Len(hd_where)
               THEN nodes[g].columnId = FlatList[nodes[g].childrenIds[1] + 1].columnId
               ELSE nodes[g].columnId = None

\* C29: in a returned list the descriptors keep their positions, and the
\* parentId p of the node at position i (positions from 0) is a position of
\* the list that holds a group node whose childrenIds contains i.
C29_ParentAndChildrenAgree ==
    \A nodes \in ReturnedNodeLists :
        /\ \A i \in DOMAIN FlatList : nodes[i].id = FlatList[i].id
        /\ \A i \in DOMAIN nodes :
               "parentId" \in DOMAIN nodes[i] =>
                   /\ nodes[i].parentId + 1 \in GroupNodes(nodes)
                   /\ (i - 1) \in Range(nodes[nodes[i].parentId + 1].childrenIds)

\* parentId counts positions from 1 and childrenIds from 0: the group node
\* of the node at position i is at position parentId - 1.
HdParentIdIsOneBased ==
    \A nodes \in ReturnedNodeLists :
        /\ \A i \in DOMAIN FlatList : nodes[i].id = FlatList[i].id
        /\ \A i \in DOMAIN nodes :
               "parentId" \in DOMAIN nodes[i] =>
                   /\ nodes[i].parentId \in GroupNodes(nodes)
                   /\ (i - 1) \in Range(nodes[nodes[i].parentId].childrenIds)

(***************************************************************************)
(* Properties of get_what_if_shap_values                                   *)
(***************************************************************************)
\* The instance's value of a column, and the column's statistics.
InstanceValue(c) == wi_fm.values[c][direct_id]

\* count^2 * (count - 1) times the sample variance of a column.
ScaledVariance(c) ==
    stat(wi_fm, c).count * stat(wi_fm, c).squares - stat(wi_fm, c).sum * stat(wi_fm, c).sum

\* count times the distance of the instance's value from the mean.
ScaledDeviation(c) == stat(wi_fm, c).count * InstanceValue(c).value - stat(wi_fm, c).sum

\* The value lies within [mean - 1.96 * std, mean + 1.96 * std].
WithinInterval(c) ==
    ScaledDeviation(c) * ScaledDeviation(c) * (stat(wi_fm, c).count - 1) * 625
        <= 2401 * stat(wi_fm, c).count * ScaledVariance(c)

\* The numeric columns whose value is present, whose standard deviation is
\* defined, and whose value lies strictly outside the interval.
OutOfRange ==
    {c \in Range(wi_fm.columns) \cap WiNumeric :
        /\ direct_id \in WiRowIds
        /\ ~InstanceValue(c).nan
        /\ stat(wi_fm, c).count >= 2
        /\ ~WithinInterval(c)}

ViolatedSide(c) == IF ScaledDeviation(c) > 0 THEN "high" ELSE "low"

\* The row the claim describes for feature f: the instance, with f at the
\* boundary it violates.
CounterfactualRow(f) ==
    [c \in Range(wi_fm.columns) |->
        IF c = f THEN boundary(stat(wi_fm, f), ViolatedSide(f)) ELSE InstanceValue(c)]

\* C18: every frame handed to explain and to predict_proba has one row per
\* out-of-range feature of one side; the row for f holds the violated
\* boundary of f (mean + 1.96 * std above, mean - 1.96 * std below) in column
\* f and the instance's original value in every other column, other
\* out-of-range columns included; and once a side's block has run, its
\* features have been handed over.
C18_CounterfactualBoundary ==
    /\ \A k \in DOMAIN wi_calls :
           /\ Range(wi_calls[k].X.index) \subseteq OutOfRange
           /\ \A f \in Range(wi_calls[k].X.index) :
                  wi_calls[k].X.rows[f] = CounterfactualRow(f)
    /\ wi_pc \in {"low", "return"} =>
           \A f \in OutOfRange :
               ViolatedSide(f) = "high" =>
                   \A fn \in {"explain", "predict_proba"} :
                       \E k \in DOMAIN wi_calls :
                           wi_calls[k].fn = fn /\ f \in Range(wi_calls[k].X.index)
    /\ wi_pc = "return" =>
           \A f \in OutOfRange :
               \A fn \in {"explain", "predict_proba"} :
                   \E k \in DOMAIN wi_calls :
                       wi_calls[k].fn = fn /\ f \in Range(wi_calls[k].X.index)

\* Two features are out of range on the same side, and both collaborators
\* have received their rows.
C18_Witness ==
    /\ \E k \in DOMAIN wi_calls :
           wi_calls[k].fn = "predict_proba" /\ Len(wi_calls[k].X.index) = 2
    /\ \E f, g \in OutOfRange : f # g /\ ViolatedSide(f) = ViolatedSide(g)

\* The features of the returned mapping (keyed by feature, or by target and
\* then by feature).
OutputFeatures ==
    IF DOMAIN wi_out \subseteq Range(Targets)
    THEN UNION {DOMAIN wi_out[t] : t \in DOMAIN wi_out}
    ELSE DOMAIN wi_out

\* C19: the returned mapping never holds a non-numeric feature, a feature
\* whose value for the instance is missing, a feature whose standard
\* deviation over the population is undefined or zero, or a feature whose
\* value lies within [mean - 1.96 * std, mean + 1.96 * std].
C19_InRangeExcluded ==
    wi_pc = "returned" =>
        \A f \in OutputFeatures :
            /\ f \in WiNumeric
            /\ ~InstanceValue(f).nan
            /\ stat(wi_fm, f).count >= 2
            /\ ScaledVariance(f) > 0
            /\ ~WithinInterval(f)

\* A mapping with an entry has been returned for an instance that also has
\* a non-numeric column and a numeric column that is not out of range.
C19_Witness ==
    /\ wi_pc = "returned"
    /\ OutputFeatures # {}
    /\ "GENDER" \in Range(wi_fm.columns)
    /\ \E c \in (Range(wi_fm.columns) \cap WiNumeric) \ OutOfRange :
           /\ c \notin OutputFeatures
           /\ \/ InstanceValue(c).nan
              \/ stat(wi_fm, c).count < 2
              \/ ScaledVariance(c) = 0
              \/ WithinInterval(c)

\* The entry the claim describes for feature f and target t.
CounterfactualEntry(t, f) ==
    [shap |-> [shap |-> f, target |-> t, row |-> CounterfactualRow(f)],
     prediction |-> [proba |-> t, row |-> CounterfactualRow(f)]]

\* The part of the returned mapping that belongs to target t, when the
\* caller named a target (a mapping by feature) and when it did not (a
\* mapping by target).
OutputOf(t) ==
    IF wi_target_arg # None THEN wi_out
    ELSE IF t \in DOMAIN wi_out THEN wi_out[t] ELSE <<>>

RequestedTargets == IF wi_target_arg # None THEN {wi_target_arg} ELSE Range(Targets)

\* C20: run with the repository's ModelManager, the returned mapping has,
\* for every out-of-range numeric feature, an entry holding the feature's
\* own attribution and the prediction, both computed on the row perturbed
\* for that feature.
C20_OutOfRangeEntries ==
    (wi_pc = "returned" /\ wi_manager = "ModelManager" /\ wi_failing = NoFailure) =>
        \A t \in RequestedTargets :
            \A f \in OutOfRange :
                /\ f \in DOMAIN OutputOf(t)
                /\ OutputOf(t)[f] = CounterfactualEntry(t, f)

\* With the repository's ModelManager the mapping holds no entry at all.
WiModelManagerReturnsNoEntry ==
    (wi_pc = "returned" /\ wi_manager = "ModelManager") => OutputFeatures = {}

\* With a manager whose attributions are labelled by position, the returned
\* mapping is keyed by feature and holds the entries of the last target of
\* the loop.
WiEntriesWithPositionalIndex ==
    (wi_pc = "returned" /\ wi_manager = "positional" /\ wi_target # None
         /\ ~wi_raised) =>
        /\ DOMAIN wi_out = OutOfRange
        /\ \A f \in OutOfRange : wi_out[f] = CounterfactualEntry(wi_target, f)

\* The entries computed before the except clause ran: those of the targets
\* already finished, and those of the target the failure happened in.
ComputedBeforeFailure(t) ==
    IF t \in DOMAIN wi_shap_values THEN wi_shap_values[t]
    ELSE IF t = wi_target THEN wi_shap_task
    ELSE <<>>

\* C21: when the re-scoring of one feature or of one target fails, the
\* entries of the other out-of-range features of the instance and the
\* results already computed for other targets are still returned.
C21_FailureIsolated ==
    (wi_pc = "returned" /\ wi_raised) =>
        \A t \in RequestedTargets :
            \A f \in DOMAIN ComputedBeforeFailure(t) :
                /\ f \in DOMAIN OutputOf(t)
                /\ OutputOf(t)[f] = ComputedBeforeFailure(t)[f]

\* Whatever was computed before it, a failure returns a mapping without any
\* entry.
WiFailureDiscardsEntries ==
    (wi_pc = "returned" /\ wi_raised) => OutputFeatures = {}

\* The mapping holds no entry: {} or {t: {} for every target}.
IsEmptyMapping ==
    \/ DOMAIN wi_out = {}
    \/ /\ DOMAIN wi_out = Range(Targets)
       /\ \A t \in DOMAIN wi_out : DOMAIN wi_out[t] = {}

\* C22: a call that could not compute its result (unknown instance, failing
\* model or attribution) does not return what a successful call returns for
\* an instance without out-of-range features, an empty mapping.
C22_FailureDistinguishable ==
    (wi_pc = "returned" /\ wi_raised) => ~IsEmptyMapping

\* A failed call returns an empty mapping.
WiFailureReturnsEmptyMapping ==
    (wi_pc = "returned" /\ wi_raised) => IsEmptyMapping

\* A successful call for an instance without out-of-range features returns
\* an empty mapping.
WiInRangeReturnsEmptyMapping ==
    (wi_pc = "returned" /\ ~wi_raised /\ OutOfRange = {}) => IsEmptyMapping

\* C27: called without a target, a successful call returns a mapping with
\* one entry per prediction model, from the target's name to its results by
\* feature, whether or not the instance has out-of-range features and
\* whether or not the matrix has numeric columns.
C27_ShapeWithoutTarget ==
    (wi_pc = "returned" /\ wi_target_arg = None /\ ~wi_raised) =>
        DOMAIN wi_out = Range(Targets)

\* Without a target, only a matrix without numeric columns gets the mapping
\* by target; every other successful call returns the last target's results.
WiShapeWithoutTargetNeedsNoNumericColumns ==
    (wi_pc = "returned" /\ wi_target_arg = None /\ ~wi_raised) =>
        IF Len(numeric_cols(wi_fm)) = 0
        THEN wi_out = empty_by_target(Targets)
        ELSE wi_out = wi_shap_values[Targets[Len(Targets)]]

(***************************************************************************)
(* Properties of the tasks' cutoff times                                   *)
(***************************************************************************)
\* C23: in both in-admission mortality tasks the cutoff time of every
\* admission is its admission time plus 48 hours, and a record charted 49
\* hours after admission is not among the rows of that admission's features.
C23_CutoffIsAdmitPlus48h ==
    ct_pc = "generated" =>
        \A i \in DOMAIN ct_admissions :
            /\ ct_cutoff_time[i] = ct_admissions[i].ADMITTIME + 48
            /\ \A k \in DOMAIN ct_events :
                   (/\ ct_events[k].HADM_ID = ct_admissions[i].HADM_ID
                    /\ ct_events[k].CHARTTIME = ct_admissions[i].ADMITTIME + 49)
                       => k \notin ct_window[i]

\* The PIC task does as the claim says.
CtPicCutoffIsAdmitPlus48h ==
    (ct_pc = "generated" /\ ct_task = "pic") =>
        \A i \in DOMAIN ct_admissions :
            /\ ct_cutoff_time[i] = ct_admissions[i].ADMITTIME + 48
            /\ \A k \in ct_window[i] :
                   ct_events[k].CHARTTIME <= ct_admissions[i].ADMITTIME + 48

\* The MIMIC demo task keeps every record charted up to 72 hours after
\* admission.
CtMimicKeepsRecordsUpTo72h ==
    (ct_pc = "generated" /\ ct_task = "mimic-demo") =>
        \A i \in DOMAIN ct_admissions :
            \A k \in DOMAIN ct_events :
                (/\ ct_events[k].HADM_ID = ct_admissions[i].HADM_ID
                 /\ ct_events[k].CHARTTIME <= ct_admissions[i].ADMITTIME + 72)
                    => k \in ct_window[i]

(***************************************************************************)
(* Frame effect of transfer_cutoff_times                                   *)
(***************************************************************************)
\* C25: whatever the path, the frame the caller passed as cutoff_times has
\* the columns it had before the call once the call has returned or raised
\* (its rows and index are never written).
C25_CallerFrameUntouched ==
    tc_pc \notin {"start", "loop"} => caller_columns = {"time"}

\* The caller's frame gains a column exactly when the first hop of the path
\* goes from a child to its parent: the child's foreign-key column.
TcFirstHopToParentWritesCallerFrame ==
    caller_columns # {"time"} =>
        /\ Len(path) >= 2
        /\ \E k \in DOMAIN entityset :
               /\ entityset[k].child_entity_id = path[1]
               /\ entityset[k].parent_entity_id = path[2]
               /\ caller_columns = {"time", entityset[k].child_variable_id}

(***************************************************************************)
(* Properties of the shared settings                                       *)
(***************************************************************************)
\* C24: a request that reads the shared settings while SelectorExtent.put
\* runs sees the complete old or the complete new selection, never the
\* state between the two writes: settings['selector_vars'] and the
\* selector's extents it reads are the same selection.
C24_ReadersSeeCompleteSelection ==
    rd_pc = "returned" => rd_seen.selector_vars = rd_seen.extents

\* The two parts differ only while some request is between its two writes,
\* or after the writes of two requests have interleaved.
SeTornOnlyBetweenWritesOrAfterRace ==
    settings.selector_vars # settings.selector.extents =>
        \/ \E r \in Requests : se_pc[r] = "line 51"
        \/ \E r, q \in Requests :
               /\ r # q
               /\ se_pc[r] \in {"line 52", "returned"}
               /\ se_pc[q] \in {"line 52", "returned"}
               /\ settings.selector_vars = se_extents[q]
               /\ settings.selector.extents = se_extents[r]

(***************************************************************************)
(* Properties of get_reference_values_by_entity                            *)
(***************************************************************************)
\* -1, 0 or 1: the sign of the term k * 1.96 * sqrt(sq_num / sq_den).
SpreadSign(x) == IF x.sq_num = 0 THEN 0 ELSE x.k

\* x = y as numbers.
FloatEq(x, y) ==
    /\ x.num * y.den = y.num * x.den
    /\ SpreadSign(x) = SpreadSign(y)
    /\ SpreadSign(x) # 0 => x.sq_num * y.sq_den = y.sq_num * x.sq_den

\* x <= m as numbers, for m without a square-root term: with d = m minus
\* the rational part of x, the term t of x satisfies t <= d
\* (1.96^2 = 2401 / 625).
FloatLe(x, m) ==
    LET dn == m.num * x.den - x.num * m.den
        dd == x.den * m.den
        t2 == 2401 * x.sq_num * dd * dd
        d2 == 625 * x.sq_den * dn * dn
    IN  IF SpreadSign(x) = 0 THEN dn >= 0
        ELSE IF SpreadSign(x) < 0 THEN dn >= 0 \/ t2 >= d2
        ELSE dn >= 0 /\ t2 <= d2

FloatNeg(x) == Float(0 - x.num, x.den, 0 - x.k, x.sq_num, x.sq_den)

\* The entries the call has returned.
RvEntries ==
    IF rv_pc = "returned"
    THEN {rv_references[i][c] : i \in DOMAIN rv_references, c \in Range(value_indexes)}
    ELSE {}

\* ci95 is [mean - 1.96 * std, mean + 1.96 * std] of the entry's own mean and
\* std, and encloses the mean.
IntervalAgrees(e) ==
    /\ FloatEq(e.ci95[1], Float(e.mean.num, e.mean.den, -1, e.std.sq_num, e.std.sq_den))
    /\ FloatEq(e.ci95[2], Float(e.mean.num, e.mean.den, 1, e.std.sq_num, e.std.sq_den))
    /\ FloatLe(e.ci95[1], e.mean)
    /\ FloatLe(FloatNeg(e.ci95[2]), FloatNeg(e.mean))

\* C30: in every entry that get_reference_values_by_entity reports, ci95
\* equals [mean - 1.96 * std, mean + 1.96 * std] of the mean and std reported
\* in the same entry, so that ci95[0] <= mean <= ci95[1], also for an item
\* with a single record or without non-missing values.
C30_IntervalFromReportedMeanAndStd ==
    \A e \in RvEntries : IntervalAgrees(e)

\* The interval agrees for every item but one with a single non-missing
\* value that is not zero.
RvIntervalAgreesUnlessSingleValue ==
    \A e \in RvEntries : e.count # 1 \/ e.mean.num = 0 => IntervalAgrees(e)

\* An item with a single non-missing value is reported with its value as the
\* mean, std 0 and the interval [0, 0].
RvSingleValueHasZeroInterval ==
    \A e \in RvEntries :
        e.count = 1 =>
            /\ e.mean.num \in {0, 5}
            /\ e.mean.den = 1
            /\ e.std.sq_num = 0
            /\ e.ci95 = <<FloatZero, FloatZero>>

====
